---- MODULE Spec2Model ----
(***************************************************************************)
(* DayMate backend: the plan orchestrator (app/main.py generate_plan) and  *)
(* the services it calls (weather, news, traffic, ai_agent).               *)
(*                                                                         *)
(* Conventions of the model                                                *)
(*   - a Python str is a sequence of tokens (Str); a token is a non-empty  *)
(*     TLA+ string, the token " " is whitespace; "" is <<>>.               *)
(*   - a Python Optional is a sequence of length <= 1: None is <<>>,       *)
(*     Some(x) is <<x>>.                                                   *)
(*   - a Python dict is a record; d.get(k, default) is Get(d, k, default). *)
(*   - a call that raises returns the record Raised(kind) to its caller,   *)
(*     which either handles it (try/except) or passes it on.               *)
(*   - the responses of the external providers (HTTP, RSS feed, model) are *)
(*     inputs drawn from bounded sets.                                     *)
(***************************************************************************)
EXTENDS Integers, Sequences, FiniteSets, TLC

\* ------------------------------------------------------------------ bounds
\* longest RSS feed (number of entries) the providers return in the model
MaxEntries == 2

\* ------------------------------------------------------- Python semantics
None == <<>>
Some(x) == <<x>>
IsNone(o) == Len(o) = 0
Val(o) == o[1]

\* dict.get(key, default)
Get(d, k, default) == IF k \in DOMAIN d THEN d[k] ELSE default

\* an exception leaving a function
Raised(kind) == [raised |-> TRUE, exc |-> kind]
IsRaised(r) == "raised" \in DOMAIN r

\* the exception response.json() raises for resp is a requests.RequestException
JsonRaisesRequestException(resp) == Get(resp, "json_exc", "JSONDecodeError") = "JSONDecodeError"
\* a call that returned the non-dict value v
Returned(v) == [returned |-> v]

WS == " "

RECURSIVE lstrip(_)
lstrip(s) == IF Len(s) > 0 /\ Head(s) = WS THEN lstrip(Tail(s)) ELSE s

RECURSIVE rstrip(_)
rstrip(s) == IF Len(s) > 0 /\ s[Len(s)] = WS THEN rstrip(SubSeq(s, 1, Len(s) - 1)) ELSE s

\* str.strip()
strip(s) == rstrip(lstrip(s))

\* token t occurs in text s (the model's `t in s`)
Contains(s, t) == \E i \in 1..Len(s) : s[i] = t

\* "\n".join(parts)
RECURSIVE join_lines(_)
join_lines(parts) ==
    IF Len(parts) = 0 THEN <<>>
    ELSE IF Len(parts) = 1 THEN parts[1]
    ELSE parts[1] \o <<"\n">> \o join_lines(Tail(parts))

\* `x or default` for an Optional[str] x: None and "" are falsy
StrOr(o, default) == IF IsNone(o) \/ Len(Val(o)) = 0 THEN default ELSE Val(o)

\* ------------------------------------------------- services/ai_agent.py
\* ConditionKeywords without .lower(): the capitalised condition names hold
\* none of the lower-case keywords
ConditionKeywords_case_sensitive(condition) == {}

\* keywords that occur in a lower-cased weather condition (`kw in condition.lower()`)
ConditionKeywords(condition) ==
    CASE condition = "Rain" -> {"rain"}
      [] condition = "Drizzle" -> {"drizzle"}
      [] condition = "Thunderstorm" -> {"storm"}
      [] condition = "Clear" -> {"clear"}
      [] OTHER -> {}

\* truthiness of article.get("title")
HasTitle(article) == Len(Get(article, "title", <<>>)) > 0

\* generate_fallback_plan(weather_data, news_data, city, has_weather):
\* weather_data an Optional dict, news_data a list of dicts, city an
\* Optional str, has_weather the truthiness of the argument
generate_fallback_plan(weather_data, news_data, city, has_weather) ==
    LET use_weather == has_weather /\ ~IsNone(weather_data)
                         /\ DOMAIN Val(weather_data) # {}
        temp == IF use_weather THEN Get(Val(weather_data), "temp", 20) ELSE 20
        kws == IF use_weather
               THEN ConditionKeywords(Get(Val(weather_data), "condition", "Clear"))
               ELSE {}
        location == IF use_weather
                    THEN Get(Val(weather_data), "city_name", StrOr(city, <<"your area">>))
                    ELSE StrOr(city, <<"your area">>)
        header == << <<"## Daily Plan for ">> \o location \o <<"\n">> >>
        note == IF ~has_weather
                THEN << <<"*Note: Weather data unavailable. Here are flexible recommendations:*\n">> >>
                ELSE <<>>
        morning ==
            << <<"### Morning">> >> \o
            (IF ~has_weather
             THEN << <<"- Check the weather before heading out">>,
                     <<"- Keep an umbrella handy just in case">>,
                     <<"- Great time for morning exercise or a walk">> >>
             ELSE IF "rain" \in kws \/ "storm" \in kws \/ "drizzle" \in kws
             THEN << <<"- Don't forget your umbrella! Rain is expected today.">>,
                     <<"- Consider indoor exercise like yoga or home workout.">> >>
             ELSE IF temp > 30
             THEN << <<"- Start your day early to avoid peak heat.">>,
                     <<"- Stay hydrated - keep water with you.">> >>
             ELSE IF temp < 10
             THEN << <<"- Bundle up! It's cold outside.">>,
                     <<"- A warm breakfast will help start your day right.">> >>
             ELSE << <<"- Great weather for a morning walk or jog!">>,
                     <<"- Enjoy breakfast outdoors if possible.">> >>)
        afternoon ==
            << <<"\n### Afternoon">> >> \o
            (IF ~has_weather
             THEN << <<"- Good time for errands and tasks">>,
                     <<"- Plan both indoor and outdoor options">> >>
             ELSE IF "rain" \in kws \/ "storm" \in kws
             THEN << <<"- Good time for indoor activities: reading, movies, or catching up on work.">>,
                     <<"- If you must go out, plan trips between rain showers.">> >>
             ELSE IF temp > 30
             THEN << <<"- Stay indoors during peak sun hours (12-3 PM).">>,
                     <<"- Visit air-conditioned places like malls or libraries.">> >>
             ELSE IF "clear" \in kws \/ "sun" \in kws
             THEN << <<"- Perfect weather for outdoor activities!">>,
                     <<"- Consider a lunch picnic or outdoor cafe.">> >>
             ELSE << <<"- Good time for errands and outdoor tasks.">>,
                     <<"- Check local events happening today.">> >>)
        evening ==
            << <<"\n### Evening">> >> \o
            (IF ~has_weather
             THEN << <<"- Perfect time for dinner plans or relaxation">>,
                     <<"- Consider both indoor and outdoor dining options">> >>
             ELSE IF "rain" \in kws
             THEN << <<"- Cozy evening indoors - perfect for cooking or movies.">> >>
             ELSE IF temp > 25
             THEN << <<"- Enjoy the cooler evening air with a walk.">> >>
             ELSE << <<"- Great time for dinner out or evening activities.">> >>)
        tip == IF Len(news_data) > 0 /\ HasTitle(news_data[1])
               THEN << <<"\n### Stay Informed">>,
                       <<"- Check local news: ">> \o news_data[1].title >>
               ELSE <<>>
    IN  join_lines(header \o note \o morning \o afternoon \o evening \o tip)

\* number of positional parameters generate_fallback_plan accepts
FallbackPlanParams == 4

\* a positional call generate_fallback_plan(*args): more arguments than
\* parameters is a TypeError at the call
call_generate_fallback_plan(args) ==
    IF Len(args) > FallbackPlanParams
    THEN Raised("TypeError")
    ELSE Returned(generate_fallback_plan(args[1], args[2], args[3], args[4]))

\* `not api_key or api_key == "your_gemini_api_key_here"` for api_key = os.getenv(..)
KeyMissing(api_key) ==
    IsNone(api_key) \/ Len(Val(api_key)) = 0 \/ Val(api_key) = <<"your_gemini_api_key_here">>

\* day_plan_from_response with the model's text returned as it arrived,
\* without .strip()
day_plan_from_response_untrimmed(resp, fallback) ==
    IF resp.status = 400
    THEN [error |-> TRUE, message |-> <<"Invalid request to AI service.">>, plan |-> fallback]
    ELSE IF resp.status = 403
    THEN [error |-> TRUE, message |-> <<"AI API key invalid or quota exceeded.">>, plan |-> fallback]
    ELSE IF resp.status # 200
    THEN [error |-> TRUE,
          message |-> <<"AI service temporarily unavailable. Using basic recommendations.">>,
          plan |-> fallback]
    ELSE IF ~resp.json_ok
    THEN Raised("ValueError")
    ELSE LET result == resp.body IN
         IF "candidates" \in DOMAIN result /\ Len(result.candidates) > 0
            /\ "content" \in DOMAIN result.candidates[1]
            /\ "parts" \in DOMAIN result.candidates[1].content
         THEN LET parts == result.candidates[1].content.parts IN
              IF Len(parts) = 0 THEN Raised("IndexError")
              ELSE IF "text" \notin DOMAIN parts[1] THEN Raised("KeyError")
              ELSE [error |-> FALSE, plan |-> parts[1].text]
         ELSE [error |-> TRUE,
               message |-> <<"Could not parse AI response. Using basic recommendations.">>,
               plan |-> fallback]

\* the part of generate_day_plan after `response = requests.post(...)`, for a
\* response that arrived: the status checks and the extraction of the text.
\* Returns the dict, or Raised when the body makes the extraction raise.
day_plan_from_response(resp, fallback) ==
    IF resp.status = 400
    THEN [error |-> TRUE, message |-> <<"Invalid request to AI service.">>, plan |-> fallback]
    ELSE IF resp.status = 403
    THEN [error |-> TRUE, message |-> <<"AI API key invalid or quota exceeded.">>, plan |-> fallback]
    ELSE IF resp.status # 200
    THEN [error |-> TRUE,
          message |-> <<"AI service temporarily unavailable. Using basic recommendations.">>,
          plan |-> fallback]
    ELSE IF ~resp.json_ok
    THEN Raised("ValueError")
    ELSE LET result == resp.body IN
         IF "candidates" \in DOMAIN result /\ Len(result.candidates) > 0
            /\ "content" \in DOMAIN result.candidates[1]
            /\ "parts" \in DOMAIN result.candidates[1].content
         THEN LET parts == result.candidates[1].content.parts IN
              IF Len(parts) = 0 THEN Raised("IndexError")
              ELSE IF "text" \notin DOMAIN parts[1] THEN Raised("KeyError")
              ELSE [error |-> FALSE, plan |-> strip(parts[1].text)]
         ELSE [error |-> TRUE,
               message |-> <<"Could not parse AI response. Using basic recommendations.">>,
               plan |-> fallback]

\* generate_day_plan(weather_data, news_data, city, profile, preferences,
\* traffic_alerts) with the environment's GEMINI_API_KEY and the outcome
\* resp of the one requests.post it may make.  profile and preferences only
\* shape the prompt text and are left out.
generate_day_plan(api_key, weather_data, news_data, city, traffic_alerts, resp) ==
    LET has_weather == ~IsNone(weather_data) /\ DOMAIN Val(weather_data) # {}
                         /\ ~Get(Val(weather_data), "error", FALSE)
        fallback ==
            call_generate_fallback_plan(<<weather_data, news_data, city, has_weather>>).returned
    IN  IF KeyMissing(api_key)
        THEN LET plan == call_generate_fallback_plan(
                            <<weather_data, news_data, city, has_weather, traffic_alerts>>)
             IN  IF IsRaised(plan) THEN plan
                 ELSE [error |-> TRUE,
                       message |-> <<"AI API key not configured. Using basic recommendations.">>,
                       plan |-> plan.returned]
        ELSE IF resp.kind = "timeout"
        THEN [error |-> TRUE,
              message |-> <<"AI service timed out. Using basic recommendations.">>,
              plan |-> fallback]
        ELSE IF resp.kind = "error"
        THEN [error |-> TRUE,
              message |-> <<"AI service error. Using basic recommendations.">>,
              plan |-> fallback]
        ELSE LET r == day_plan_from_response(resp, fallback) IN
             IF IsRaised(r)
             THEN [error |-> TRUE,
                   message |-> <<"AI service error. Using basic recommendations.">>,
                   plan |-> fallback]
             ELSE r

\* whether generate_day_plan reaches requests.post
day_plan_calls_model(api_key) == ~KeyMissing(api_key)

\* generate_day_plan, line 44: location_name, the place the prompt names
prompt_location(weather_data, city) ==
    IF ~IsNone(weather_data) /\ ~Get(Val(weather_data), "error", FALSE)
    THEN Get(Val(weather_data), "city_name", StrOr(city, <<"Unknown">>))
    ELSE StrOr(city, <<"Unknown">>)

\* followup_from_response with the model's text returned as it arrived,
\* without .strip()
followup_from_response_untrimmed(resp) ==
    IF resp.status # 200
    THEN [error |-> TRUE, message |-> <<"AI service temporarily unavailable.">>,
          response |-> <<"I'm having trouble thinking of a response right now. Please try again.">>]
    ELSE IF ~resp.json_ok
    THEN Raised("ValueError")
    ELSE LET result == resp.body IN
         IF "candidates" \in DOMAIN result /\ Len(result.candidates) > 0
            /\ "content" \in DOMAIN result.candidates[1]
            /\ "parts" \in DOMAIN result.candidates[1].content
         THEN LET parts == result.candidates[1].content.parts IN
              IF Len(parts) = 0 THEN Raised("IndexError")
              ELSE IF "text" \notin DOMAIN parts[1] THEN Raised("KeyError")
              ELSE [error |-> FALSE, response |-> parts[1].text]
         ELSE [error |-> TRUE, message |-> <<"Could not parse AI response.">>,
               response |-> <<"I'm not sure how to answer that. Could you rephrase?">>]

\* the part of generate_followup after `response = requests.post(...)`, for a
\* response that arrived: the status check and the extraction of the text.
\* Returns the dict, or Raised when the body makes the extraction raise.
followup_from_response(resp) ==
    IF resp.status # 200
    THEN [error |-> TRUE, message |-> <<"AI service temporarily unavailable.">>,
          response |-> <<"I'm having trouble thinking of a response right now. Please try again.">>]
    ELSE IF ~resp.json_ok
    THEN Raised("ValueError")
    ELSE LET result == resp.body IN
         IF "candidates" \in DOMAIN result /\ Len(result.candidates) > 0
            /\ "content" \in DOMAIN result.candidates[1]
            /\ "parts" \in DOMAIN result.candidates[1].content
         THEN LET parts == result.candidates[1].content.parts IN
              IF Len(parts) = 0 THEN Raised("IndexError")
              ELSE IF "text" \notin DOMAIN parts[1] THEN Raised("KeyError")
              ELSE [error |-> FALSE, response |-> strip(parts[1].text)]
         ELSE [error |-> TRUE, message |-> <<"Could not parse AI response.">>,
               response |-> <<"I'm not sure how to answer that. Could you rephrase?">>]

\* the dict of generate_followup's `except Exception as e`; message is str(e),
\* written here as the exception's kind
followup_exception(kind) ==
    [error |-> TRUE, message |-> <<kind>>,
     response |-> <<"Something went wrong while processing your request.">>]

\* generate_followup(weather_data, news_data, city, previous_plan,
\* user_message) with the environment's GEMINI_API_KEY and the outcome resp
\* of the one requests.post it may make.  The arguments only shape the prompt
\* text and are left out.
generate_followup(api_key, resp) ==
    IF KeyMissing(api_key)
    THEN [error |-> TRUE, message |-> <<"AI API key not configured.">>,
          response |-> <<"I'm sorry, I can't answer follow-up questions right now because my AI brain isn't fully connected.">>]
    ELSE IF resp.kind = "timeout" THEN followup_exception("Timeout")
    ELSE IF resp.kind = "error" THEN followup_exception("ConnectionError")
    ELSE LET r == followup_from_response(resp) IN
         IF IsRaised(r) THEN followup_exception(r.exc) ELSE r

\* whether generate_followup reaches requests.post
followup_calls_model(api_key) == ~KeyMissing(api_key)

\* ----------------------------------------------------- services/news.py
TRAFFIC_KEYWORDS ==
    {"traffic", "accident", "road closure", "highway", "congestion",
     "road work", "construction", "detour", "delays", "crash"}

EMERGENCY_KEYWORDS ==
    {"emergency", "evacuation", "fire", "flood", "storm warning",
     "power outage", "gas leak", "police", "alert", "closure",
     "severe weather", "tornado", "hurricane", "earthquake"}

\* str.lower() of one token
LowerToken(t) ==
    CASE t = "Fire" -> "fire"
      [] t = "Traffic" -> "traffic"
      [] t = "Road Closure" -> "road closure"
      [] OTHER -> t

\* the keywords that are substrings of the lower-case token t: t itself when
\* it is a keyword, and the keywords contained in a longer token
KeywordsInToken(t) ==
    (IF t \in TRAFFIC_KEYWORDS \cup EMERGENCY_KEYWORDS THEN {t} ELSE {})
    \cup (CASE t = "road closure" -> {"closure"}
            [] t = "wildfire" -> {"fire"}
            [] t = "alerts" -> {"alert"}
            [] OTHER -> {})

\* the keywords of kws found in title.lower()
KeywordsInTitle(title, kws) ==
    UNION {KeywordsInToken(LowerToken(title[i])) \cap kws : i \in 1..Len(title)}

Min(a, b) == IF a < b THEN a ELSE b

\* Python slice xs[:n]
Prefix(xs, n) == SubSeq(xs, 1, Min(n, Len(xs)))

\* get_traffic_alerts, lines 56-73: the alert of an entry whose title matches
traffic_alert(entry, is_traffic, is_emergency) ==
    [title |-> entry.title,
     url |-> entry.link,
     source |-> <<"Google News">>,
     alert_type |-> IF is_emergency THEN "emergency" ELSE "traffic",
     priority |-> IF is_emergency THEN "high" ELSE "medium"]

\* the loop of get_traffic_alerts over feed.entries[:page_size * 2]: the
\* alerts collected so far, or failed when an entry has no title
RECURSIVE scan_traffic_entries(_, _, _)
scan_traffic_entries(entries, alerts, page_size) ==
    IF Len(entries) = 0 THEN [failed |-> FALSE, alerts |-> alerts]
    ELSE LET entry == Head(entries) IN
         IF "title" \notin DOMAIN entry THEN [failed |-> TRUE, alerts |-> <<>>]
         ELSE LET is_traffic == KeywordsInTitle(entry.title, TRAFFIC_KEYWORDS) # {}
                  is_emergency == KeywordsInTitle(entry.title, EMERGENCY_KEYWORDS) # {}
                  alert == traffic_alert(entry, is_traffic, is_emergency)
              IN  IF is_traffic \/ is_emergency
                  THEN IF Len(alerts) + 1 >= page_size
                       THEN [failed |-> FALSE, alerts |-> Append(alerts, alert)]
                       ELSE scan_traffic_entries(Tail(entries), Append(alerts, alert), page_size)
                  ELSE scan_traffic_entries(Tail(entries), alerts, page_size)

IsHigh(alert) == alert.priority = "high"
IsNotHigh(alert) == alert.priority # "high"

\* alerts.sort(key=lambda x: 0 if x['priority'] == 'high' else 1), a stable sort
sort_high_first(alerts) == SelectSeq(alerts, IsHigh) \o SelectSeq(alerts, IsNotHigh)

\* get_traffic_alerts(city, page_size) for the outcome feed of feedparser.parse
get_traffic_alerts(city, page_size, feed) ==
    LET failure == [error |-> TRUE,
                    message |-> <<"Traffic alerts unavailable: ">>,
                    alerts |-> <<>>,
                    has_high_priority |-> FALSE,
                    alert_count |-> 0]
    IN  IF feed.kind = "raise" THEN failure
        ELSE LET scan == scan_traffic_entries(Prefix(feed.entries, page_size * 2), <<>>, page_size)
             IN  IF scan.failed THEN failure
                 ELSE [error |-> FALSE,
                       alerts |-> sort_high_first(scan.alerts),
                       has_high_priority |-> Len(SelectSeq(scan.alerts, IsHigh)) > 0,
                       alert_count |-> Len(scan.alerts)]

\* get_fallback_news(city)
get_fallback_news(city) ==
    << [title |-> <<"Local events and activities in ">> \o city,
        url |-> <<"#">>, source |-> <<"DayMate">>],
       [title |-> <<"Traffic and transportation updates for ">> \o city,
        url |-> <<"#">>, source |-> <<"DayMate">>],
       [title |-> <<"Community news from ">> \o city,
        url |-> <<"#">>, source |-> <<"DayMate">>] >>

\* one entry of the feed as a news article; entry has a title
news_article(entry) ==
    [title |-> entry.title, url |-> entry.link, source |-> <<"Google News">>]

\* get_local_news without the `if not feed.entries` fallback: an empty feed
\* gives an empty article list
get_local_news_no_fallback(city, page_size, feed) ==
    IF feed.kind = "raise"
    THEN [error |-> TRUE,
          message |-> <<"News service unavailable: ">>,
          articles |-> get_fallback_news(city)]
    ELSE LET taken == Prefix(feed.entries, page_size) IN
         IF \E i \in 1..Len(taken) : "title" \notin DOMAIN taken[i]
         THEN [error |-> TRUE,
               message |-> <<"News service unavailable: ">>,
               articles |-> get_fallback_news(city)]
         ELSE [error |-> FALSE,
               articles |-> [i \in 1..Len(taken) |-> news_article(taken[i])]]

\* get_local_news(city, page_size) for the outcome feed of feedparser.parse
get_local_news(city, page_size, feed) ==
    IF feed.kind = "raise"
    THEN [error |-> TRUE,
          message |-> <<"News service unavailable: ">>,
          articles |-> get_fallback_news(city)]
    ELSE IF Len(feed.entries) = 0
    THEN [error |-> FALSE,
          message |-> <<"No news found for ">> \o city,
          articles |-> get_fallback_news(city)]
    ELSE LET taken == Prefix(feed.entries, page_size) IN
         IF \E i \in 1..Len(taken) : "title" \notin DOMAIN taken[i]
         THEN [error |-> TRUE,
               message |-> <<"News service unavailable: ">>,
               articles |-> get_fallback_news(city)]
         ELSE [error |-> FALSE,
               articles |-> [i \in 1..Len(taken) |-> news_article(taken[i])]]

\* default page_size of get_local_news and get_traffic_alerts
DefaultPageSize == 5

\* -------------------------------------------------- services/weather.py
\* WEATHER_CODES: WMO code -> (condition, description, icon)
WEATHER_CODES ==
    [c \in {0, 1} |-> <<"Clear", IF c = 0 THEN "clear sky" ELSE "mainly clear", "01d">>]
    @@ (2 :> <<"Clouds", "partly cloudy", "02d">>)
    @@ (3 :> <<"Clouds", "overcast", "03d">>)
    @@ (45 :> <<"Fog", "fog", "50d">>)
    @@ (48 :> <<"Fog", "depositing rime fog", "50d">>)
    @@ (51 :> <<"Drizzle", "light drizzle", "09d">>)
    @@ (53 :> <<"Drizzle", "moderate drizzle", "09d">>)
    @@ (55 :> <<"Drizzle", "dense drizzle", "09d">>)
    @@ (56 :> <<"Drizzle", "light freezing drizzle", "09d">>)
    @@ (57 :> <<"Drizzle", "dense freezing drizzle", "09d">>)
    @@ (61 :> <<"Rain", "slight rain", "10d">>)
    @@ (63 :> <<"Rain", "moderate rain", "10d">>)
    @@ (65 :> <<"Rain", "heavy rain", "10d">>)
    @@ (66 :> <<"Rain", "light freezing rain", "13d">>)
    @@ (67 :> <<"Rain", "heavy freezing rain", "13d">>)
    @@ (71 :> <<"Snow", "slight snow", "13d">>)
    @@ (73 :> <<"Snow", "moderate snow", "13d">>)
    @@ (75 :> <<"Snow", "heavy snow", "13d">>)
    @@ (77 :> <<"Snow", "snow grains", "13d">>)
    @@ (80 :> <<"Rain", "slight rain showers", "09d">>)
    @@ (81 :> <<"Rain", "moderate rain showers", "09d">>)
    @@ (82 :> <<"Rain", "violent rain showers", "09d">>)
    @@ (85 :> <<"Snow", "slight snow showers", "13d">>)
    @@ (86 :> <<"Snow", "heavy snow showers", "13d">>)
    @@ (95 :> <<"Thunderstorm", "thunderstorm", "11d">>)
    @@ (96 :> <<"Thunderstorm", "thunderstorm with slight hail", "11d">>)
    @@ (99 :> <<"Thunderstorm", "thunderstorm with heavy hail", "11d">>)

\* get_coordinates(city) for the outcome resp of its requests.get.  The
\* except clauses name requests.Timeout and requests.RequestException only,
\* so a KeyError from the body leaves the function.
get_coordinates(city, resp) ==
    IF resp.kind = "timeout"
    THEN [error |-> TRUE, message |-> <<"Geocoding service timed out">>]
    ELSE IF resp.kind = "error"
    THEN [error |-> TRUE, message |-> <<"Geocoding error: ">>]
    ELSE IF resp.status # 200
    THEN [error |-> TRUE, message |-> <<"Geocoding service unavailable">>]
    ELSE IF ~resp.json_ok
    THEN IF JsonRaisesRequestException(resp)
         THEN [error |-> TRUE, message |-> <<"Geocoding error: ">>]
         ELSE Raised("ValueError")
    ELSE LET data == resp.body IN
         IF "results" \notin DOMAIN data \/ Len(data.results) = 0
         THEN [error |-> TRUE,
               message |-> <<"City '">> \o city
                           \o <<"' not found. Please check the spelling and try again.">>]
         ELSE LET result == data.results[1] IN
              IF {"latitude", "longitude", "name"} \subseteq DOMAIN result
              THEN [error |-> FALSE,
                    lat |-> result.latitude,
                    lon |-> result.longitude,
                    city_name |-> result.name,
                    country |-> Get(result, "country_code", Get(result, "country", <<>>))]
              ELSE Raised("KeyError")

\* the forecast request and the construction of weather_info, the same code
\* in get_realtime_weather and get_weather_by_coordinates.  A JSON number of
\* the body is an Optional (null is None); round(None, 1) is a TypeError,
\* which the function catches.
forecast_weather(resp, city_name, country) ==
    IF resp.kind = "timeout"
    THEN [error |-> TRUE, message |-> <<"Weather service timed out. Please try again later.">>]
    ELSE IF resp.kind = "error"
    THEN [error |-> TRUE, message |-> <<"Weather service unavailable: ">>]
    ELSE IF resp.status # 200
    THEN [error |-> TRUE,
          message |-> <<"Weather service temporarily unavailable. Please try again.">>]
    ELSE IF ~resp.json_ok
    THEN IF JsonRaisesRequestException(resp)
         THEN [error |-> TRUE, message |-> <<"Weather service unavailable: ">>]
         ELSE Raised("ValueError")
    ELSE LET current == Get(resp.body, "current", <<>>)
             weather_code == Get(current, "weather_code", 0)
             triple == IF weather_code \in DOMAIN WEATHER_CODES
                       THEN WEATHER_CODES[weather_code]
                       ELSE <<"Clear", "clear sky", "01d">>
             temperature == Get(current, "temperature_2m", Some(0))
         IN  IF IsNone(temperature)
             THEN [error |-> TRUE,
                   message |-> <<"Error parsing weather data. Please try again.">>]
             ELSE [error |-> FALSE,
                   temp |-> Val(temperature),
                   condition |-> triple[1],
                   description |-> triple[2],
                   icon |-> triple[3],
                   city_name |-> city_name,
                   country |-> country]

\* get_realtime_weather(city) for the outcomes of the geocoding and of the
\* forecast request
get_realtime_weather(city, geo_resp, fc_resp) ==
    LET geo_result == get_coordinates(city, geo_resp) IN
    IF IsRaised(geo_result) THEN geo_result
    ELSE IF geo_result.error THEN geo_result
    ELSE forecast_weather(fc_resp, geo_result.city_name, geo_result.country)

\* whether get_realtime_weather makes the forecast request
realtime_weather_calls_forecast(city, geo_resp) ==
    LET geo_result == get_coordinates(city, geo_resp) IN
    ~IsRaised(geo_result) /\ ~geo_result.error

\* the tokens of one or two lower-case letters, each with its str.upper()
UpperCodes ==
    <<<<"a", "A">>, <<"b", "B">>, <<"c", "C">>, <<"d", "D">>, <<"e", "E">>, <<"f", "F">>,
      <<"g", "G">>, <<"h", "H">>, <<"i", "I">>, <<"j", "J">>, <<"k", "K">>, <<"l", "L">>,
      <<"m", "M">>, <<"n", "N">>, <<"o", "O">>, <<"p", "P">>, <<"q", "Q">>, <<"r", "R">>,
      <<"s", "S">>, <<"t", "T">>, <<"u", "U">>, <<"v", "V">>, <<"w", "W">>, <<"x", "X">>,
      <<"y", "Y">>, <<"z", "Z">>, <<"aa", "AA">>, <<"ab", "AB">>, <<"ac", "AC">>,
      <<"ad", "AD">>, <<"ae", "AE">>, <<"af", "AF">>, <<"ag", "AG">>, <<"ah", "AH">>,
      <<"ai", "AI">>, <<"aj", "AJ">>, <<"ak", "AK">>, <<"al", "AL">>, <<"am", "AM">>,
      <<"an", "AN">>, <<"ao", "AO">>, <<"ap", "AP">>, <<"aq", "AQ">>, <<"ar", "AR">>,
      <<"as", "AS">>, <<"at", "AT">>, <<"au", "AU">>, <<"av", "AV">>, <<"aw", "AW">>,
      <<"ax", "AX">>, <<"ay", "AY">>, <<"az", "AZ">>, <<"ba", "BA">>, <<"bb", "BB">>,
      <<"bc", "BC">>, <<"bd", "BD">>, <<"be", "BE">>, <<"bf", "BF">>, <<"bg", "BG">>,
      <<"bh", "BH">>, <<"bi", "BI">>, <<"bj", "BJ">>, <<"bk", "BK">>, <<"bl", "BL">>,
      <<"bm", "BM">>, <<"bn", "BN">>, <<"bo", "BO">>, <<"bp", "BP">>, <<"bq", "BQ">>,
      <<"br", "BR">>, <<"bs", "BS">>, <<"bt", "BT">>, <<"bu", "BU">>, <<"bv", "BV">>,
      <<"bw", "BW">>, <<"bx", "BX">>, <<"by", "BY">>, <<"bz", "BZ">>, <<"ca", "CA">>,
      <<"cb", "CB">>, <<"cc", "CC">>, <<"cd", "CD">>, <<"ce", "CE">>, <<"cf", "CF">>,
      <<"cg", "CG">>, <<"ch", "CH">>, <<"ci", "CI">>, <<"cj", "CJ">>, <<"ck", "CK">>,
      <<"cl", "CL">>, <<"cm", "CM">>, <<"cn", "CN">>, <<"co", "CO">>, <<"cp", "CP">>,
      <<"cq", "CQ">>, <<"cr", "CR">>, <<"cs", "CS">>, <<"ct", "CT">>, <<"cu", "CU">>,
      <<"cv", "CV">>, <<"cw", "CW">>, <<"cx", "CX">>, <<"cy", "CY">>, <<"cz", "CZ">>,
      <<"da", "DA">>, <<"db", "DB">>, <<"dc", "DC">>, <<"dd", "DD">>, <<"de", "DE">>,
      <<"df", "DF">>, <<"dg", "DG">>, <<"dh", "DH">>, <<"di", "DI">>, <<"dj", "DJ">>,
      <<"dk", "DK">>, <<"dl", "DL">>, <<"dm", "DM">>, <<"dn", "DN">>, <<"do", "DO">>,
      <<"dp", "DP">>, <<"dq", "DQ">>, <<"dr", "DR">>, <<"ds", "DS">>, <<"dt", "DT">>,
      <<"du", "DU">>, <<"dv", "DV">>, <<"dw", "DW">>, <<"dx", "DX">>, <<"dy", "DY">>,
      <<"dz", "DZ">>, <<"ea", "EA">>, <<"eb", "EB">>, <<"ec", "EC">>, <<"ed", "ED">>,
      <<"ee", "EE">>, <<"ef", "EF">>, <<"eg", "EG">>, <<"eh", "EH">>, <<"ei", "EI">>,
      <<"ej", "EJ">>, <<"ek", "EK">>, <<"el", "EL">>, <<"em", "EM">>, <<"en", "EN">>,
      <<"eo", "EO">>, <<"ep", "EP">>, <<"eq", "EQ">>, <<"er", "ER">>, <<"es", "ES">>,
      <<"et", "ET">>, <<"eu", "EU">>, <<"ev", "EV">>, <<"ew", "EW">>, <<"ex", "EX">>,
      <<"ey", "EY">>, <<"ez", "EZ">>, <<"fa", "FA">>, <<"fb", "FB">>, <<"fc", "FC">>,
      <<"fd", "FD">>, <<"fe", "FE">>, <<"ff", "FF">>, <<"fg", "FG">>, <<"fh", "FH">>,
      <<"fi", "FI">>, <<"fj", "FJ">>, <<"fk", "FK">>, <<"fl", "FL">>, <<"fm", "FM">>,
      <<"fn", "FN">>, <<"fo", "FO">>, <<"fp", "FP">>, <<"fq", "FQ">>, <<"fr", "FR">>,
      <<"fs", "FS">>, <<"ft", "FT">>, <<"fu", "FU">>, <<"fv", "FV">>, <<"fw", "FW">>,
      <<"fx", "FX">>, <<"fy", "FY">>, <<"fz", "FZ">>, <<"ga", "GA">>, <<"gb", "GB">>,
      <<"gc", "GC">>, <<"gd", "GD">>, <<"ge", "GE">>, <<"gf", "GF">>, <<"gg", "GG">>,
      <<"gh", "GH">>, <<"gi", "GI">>, <<"gj", "GJ">>, <<"gk", "GK">>, <<"gl", "GL">>,
      <<"gm", "GM">>, <<"gn", "GN">>, <<"go", "GO">>, <<"gp", "GP">>, <<"gq", "GQ">>,
      <<"gr", "GR">>, <<"gs", "GS">>, <<"gt", "GT">>, <<"gu", "GU">>, <<"gv", "GV">>,
      <<"gw", "GW">>, <<"gx", "GX">>, <<"gy", "GY">>, <<"gz", "GZ">>, <<"ha", "HA">>,
      <<"hb", "HB">>, <<"hc", "HC">>, <<"hd", "HD">>, <<"he", "HE">>, <<"hf", "HF">>,
      <<"hg", "HG">>, <<"hh", "HH">>, <<"hi", "HI">>, <<"hj", "HJ">>, <<"hk", "HK">>,
      <<"hl", "HL">>, <<"hm", "HM">>, <<"hn", "HN">>, <<"ho", "HO">>, <<"hp", "HP">>,
      <<"hq", "HQ">>, <<"hr", "HR">>, <<"hs", "HS">>, <<"ht", "HT">>, <<"hu", "HU">>,
      <<"hv", "HV">>, <<"hw", "HW">>, <<"hx", "HX">>, <<"hy", "HY">>, <<"hz", "HZ">>,
      <<"ia", "IA">>, <<"ib", "IB">>, <<"ic", "IC">>, <<"id", "ID">>, <<"ie", "IE">>,
      <<"if", "IF">>, <<"ig", "IG">>, <<"ih", "IH">>, <<"ii", "II">>, <<"ij", "IJ">>,
      <<"ik", "IK">>, <<"il", "IL">>, <<"im", "IM">>, <<"in", "IN">>, <<"io", "IO">>,
      <<"ip", "IP">>, <<"iq", "IQ">>, <<"ir", "IR">>, <<"is", "IS">>, <<"it", "IT">>,
      <<"iu", "IU">>, <<"iv", "IV">>, <<"iw", "IW">>, <<"ix", "IX">>, <<"iy", "IY">>,
      <<"iz", "IZ">>, <<"ja", "JA">>, <<"jb", "JB">>, <<"jc", "JC">>, <<"jd", "JD">>,
      <<"je", "JE">>, <<"jf", "JF">>, <<"jg", "JG">>, <<"jh", "JH">>, <<"ji", "JI">>,
      <<"jj", "JJ">>, <<"jk", "JK">>, <<"jl", "JL">>, <<"jm", "JM">>, <<"jn", "JN">>,
      <<"jo", "JO">>, <<"jp", "JP">>, <<"jq", "JQ">>, <<"jr", "JR">>, <<"js", "JS">>,
      <<"jt", "JT">>, <<"ju", "JU">>, <<"jv", "JV">>, <<"jw", "JW">>, <<"jx", "JX">>,
      <<"jy", "JY">>, <<"jz", "JZ">>, <<"ka", "KA">>, <<"kb", "KB">>, <<"kc", "KC">>,
      <<"kd", "KD">>, <<"ke", "KE">>, <<"kf", "KF">>, <<"kg", "KG">>, <<"kh", "KH">>,
      <<"ki", "KI">>, <<"kj", "KJ">>, <<"kk", "KK">>, <<"kl", "KL">>, <<"km", "KM">>,
      <<"kn", "KN">>, <<"ko", "KO">>, <<"kp", "KP">>, <<"kq", "KQ">>, <<"kr", "KR">>,
      <<"ks", "KS">>, <<"kt", "KT">>, <<"ku", "KU">>, <<"kv", "KV">>, <<"kw", "KW">>,
      <<"kx", "KX">>, <<"ky", "KY">>, <<"kz", "KZ">>, <<"la", "LA">>, <<"lb", "LB">>,
      <<"lc", "LC">>, <<"ld", "LD">>, <<"le", "LE">>, <<"lf", "LF">>, <<"lg", "LG">>,
      <<"lh", "LH">>, <<"li", "LI">>, <<"lj", "LJ">>, <<"lk", "LK">>, <<"ll", "LL">>,
      <<"lm", "LM">>, <<"ln", "LN">>, <<"lo", "LO">>, <<"lp", "LP">>, <<"lq", "LQ">>,
      <<"lr", "LR">>, <<"ls", "LS">>, <<"lt", "LT">>, <<"lu", "LU">>, <<"lv", "LV">>,
      <<"lw", "LW">>, <<"lx", "LX">>, <<"ly", "LY">>, <<"lz", "LZ">>, <<"ma", "MA">>,
      <<"mb", "MB">>, <<"mc", "MC">>, <<"md", "MD">>, <<"me", "ME">>, <<"mf", "MF">>,
      <<"mg", "MG">>, <<"mh", "MH">>, <<"mi", "MI">>, <<"mj", "MJ">>, <<"mk", "MK">>,
      <<"ml", "ML">>, <<"mm", "MM">>, <<"mn", "MN">>, <<"mo", "MO">>, <<"mp", "MP">>,
      <<"mq", "MQ">>, <<"mr", "MR">>, <<"ms", "MS">>, <<"mt", "MT">>, <<"mu", "MU">>,
      <<"mv", "MV">>, <<"mw", "MW">>, <<"mx", "MX">>, <<"my", "MY">>, <<"mz", "MZ">>,
      <<"na", "NA">>, <<"nb", "NB">>, <<"nc", "NC">>, <<"nd", "ND">>, <<"ne", "NE">>,
      <<"nf", "NF">>, <<"ng", "NG">>, <<"nh", "NH">>, <<"ni", "NI">>, <<"nj", "NJ">>,
      <<"nk", "NK">>, <<"nl", "NL">>, <<"nm", "NM">>, <<"nn", "NN">>, <<"no", "NO">>,
      <<"np", "NP">>, <<"nq", "NQ">>, <<"nr", "NR">>, <<"ns", "NS">>, <<"nt", "NT">>,
      <<"nu", "NU">>, <<"nv", "NV">>, <<"nw", "NW">>, <<"nx", "NX">>, <<"ny", "NY">>,
      <<"nz", "NZ">>, <<"oa", "OA">>, <<"ob", "OB">>, <<"oc", "OC">>, <<"od", "OD">>,
      <<"oe", "OE">>, <<"of", "OF">>, <<"og", "OG">>, <<"oh", "OH">>, <<"oi", "OI">>,
      <<"oj", "OJ">>, <<"ok", "OK">>, <<"ol", "OL">>, <<"om", "OM">>, <<"on", "ON">>,
      <<"oo", "OO">>, <<"op", "OP">>, <<"oq", "OQ">>, <<"or", "OR">>, <<"os", "OS">>,
      <<"ot", "OT">>, <<"ou", "OU">>, <<"ov", "OV">>, <<"ow", "OW">>, <<"ox", "OX">>,
      <<"oy", "OY">>, <<"oz", "OZ">>, <<"pa", "PA">>, <<"pb", "PB">>, <<"pc", "PC">>,
      <<"pd", "PD">>, <<"pe", "PE">>, <<"pf", "PF">>, <<"pg", "PG">>, <<"ph", "PH">>,
      <<"pi", "PI">>, <<"pj", "PJ">>, <<"pk", "PK">>, <<"pl", "PL">>, <<"pm", "PM">>,
      <<"pn", "PN">>, <<"po", "PO">>, <<"pp", "PP">>, <<"pq", "PQ">>, <<"pr", "PR">>,
      <<"ps", "PS">>, <<"pt", "PT">>, <<"pu", "PU">>, <<"pv", "PV">>, <<"pw", "PW">>,
      <<"px", "PX">>, <<"py", "PY">>, <<"pz", "PZ">>, <<"qa", "QA">>, <<"qb", "QB">>,
      <<"qc", "QC">>, <<"qd", "QD">>, <<"qe", "QE">>, <<"qf", "QF">>, <<"qg", "QG">>,
      <<"qh", "QH">>, <<"qi", "QI">>, <<"qj", "QJ">>, <<"qk", "QK">>, <<"ql", "QL">>,
      <<"qm", "QM">>, <<"qn", "QN">>, <<"qo", "QO">>, <<"qp", "QP">>, <<"qq", "QQ">>,
      <<"qr", "QR">>, <<"qs", "QS">>, <<"qt", "QT">>, <<"qu", "QU">>, <<"qv", "QV">>,
      <<"qw", "QW">>, <<"qx", "QX">>, <<"qy", "QY">>, <<"qz", "QZ">>, <<"ra", "RA">>,
      <<"rb", "RB">>, <<"rc", "RC">>, <<"rd", "RD">>, <<"re", "RE">>, <<"rf", "RF">>,
      <<"rg", "RG">>, <<"rh", "RH">>, <<"ri", "RI">>, <<"rj", "RJ">>, <<"rk", "RK">>,
      <<"rl", "RL">>, <<"rm", "RM">>, <<"rn", "RN">>, <<"ro", "RO">>, <<"rp", "RP">>,
      <<"rq", "RQ">>, <<"rr", "RR">>, <<"rs", "RS">>, <<"rt", "RT">>, <<"ru", "RU">>,
      <<"rv", "RV">>, <<"rw", "RW">>, <<"rx", "RX">>, <<"ry", "RY">>, <<"rz", "RZ">>,
      <<"sa", "SA">>, <<"sb", "SB">>, <<"sc", "SC">>, <<"sd", "SD">>, <<"se", "SE">>,
      <<"sf", "SF">>, <<"sg", "SG">>, <<"sh", "SH">>, <<"si", "SI">>, <<"sj", "SJ">>,
      <<"sk", "SK">>, <<"sl", "SL">>, <<"sm", "SM">>, <<"sn", "SN">>, <<"so", "SO">>,
      <<"sp", "SP">>, <<"sq", "SQ">>, <<"sr", "SR">>, <<"ss", "SS">>, <<"st", "ST">>,
      <<"su", "SU">>, <<"sv", "SV">>, <<"sw", "SW">>, <<"sx", "SX">>, <<"sy", "SY">>,
      <<"sz", "SZ">>, <<"ta", "TA">>, <<"tb", "TB">>, <<"tc", "TC">>, <<"td", "TD">>,
      <<"te", "TE">>, <<"tf", "TF">>, <<"tg", "TG">>, <<"th", "TH">>, <<"ti", "TI">>,
      <<"tj", "TJ">>, <<"tk", "TK">>, <<"tl", "TL">>, <<"tm", "TM">>, <<"tn", "TN">>,
      <<"to", "TO">>, <<"tp", "TP">>, <<"tq", "TQ">>, <<"tr", "TR">>, <<"ts", "TS">>,
      <<"tt", "TT">>, <<"tu", "TU">>, <<"tv", "TV">>, <<"tw", "TW">>, <<"tx", "TX">>,
      <<"ty", "TY">>, <<"tz", "TZ">>, <<"ua", "UA">>, <<"ub", "UB">>, <<"uc", "UC">>,
      <<"ud", "UD">>, <<"ue", "UE">>, <<"uf", "UF">>, <<"ug", "UG">>, <<"uh", "UH">>,
      <<"ui", "UI">>, <<"uj", "UJ">>, <<"uk", "UK">>, <<"ul", "UL">>, <<"um", "UM">>,
      <<"un", "UN">>, <<"uo", "UO">>, <<"up", "UP">>, <<"uq", "UQ">>, <<"ur", "UR">>,
      <<"us", "US">>, <<"ut", "UT">>, <<"uu", "UU">>, <<"uv", "UV">>, <<"uw", "UW">>,
      <<"ux", "UX">>, <<"uy", "UY">>, <<"uz", "UZ">>, <<"va", "VA">>, <<"vb", "VB">>,
      <<"vc", "VC">>, <<"vd", "VD">>, <<"ve", "VE">>, <<"vf", "VF">>, <<"vg", "VG">>,
      <<"vh", "VH">>, <<"vi", "VI">>, <<"vj", "VJ">>, <<"vk", "VK">>, <<"vl", "VL">>,
      <<"vm", "VM">>, <<"vn", "VN">>, <<"vo", "VO">>, <<"vp", "VP">>, <<"vq", "VQ">>,
      <<"vr", "VR">>, <<"vs", "VS">>, <<"vt", "VT">>, <<"vu", "VU">>, <<"vv", "VV">>,
      <<"vw", "VW">>, <<"vx", "VX">>, <<"vy", "VY">>, <<"vz", "VZ">>, <<"wa", "WA">>,
      <<"wb", "WB">>, <<"wc", "WC">>, <<"wd", "WD">>, <<"we", "WE">>, <<"wf", "WF">>,
      <<"wg", "WG">>, <<"wh", "WH">>, <<"wi", "WI">>, <<"wj", "WJ">>, <<"wk", "WK">>,
      <<"wl", "WL">>, <<"wm", "WM">>, <<"wn", "WN">>, <<"wo", "WO">>, <<"wp", "WP">>,
      <<"wq", "WQ">>, <<"wr", "WR">>, <<"ws", "WS">>, <<"wt", "WT">>, <<"wu", "WU">>,
      <<"wv", "WV">>, <<"ww", "WW">>, <<"wx", "WX">>, <<"wy", "WY">>, <<"wz", "WZ">>,
      <<"xa", "XA">>, <<"xb", "XB">>, <<"xc", "XC">>, <<"xd", "XD">>, <<"xe", "XE">>,
      <<"xf", "XF">>, <<"xg", "XG">>, <<"xh", "XH">>, <<"xi", "XI">>, <<"xj", "XJ">>,
      <<"xk", "XK">>, <<"xl", "XL">>, <<"xm", "XM">>, <<"xn", "XN">>, <<"xo", "XO">>,
      <<"xp", "XP">>, <<"xq", "XQ">>, <<"xr", "XR">>, <<"xs", "XS">>, <<"xt", "XT">>,
      <<"xu", "XU">>, <<"xv", "XV">>, <<"xw", "XW">>, <<"xx", "XX">>, <<"xy", "XY">>,
      <<"xz", "XZ">>, <<"ya", "YA">>, <<"yb", "YB">>, <<"yc", "YC">>, <<"yd", "YD">>,
      <<"ye", "YE">>, <<"yf", "YF">>, <<"yg", "YG">>, <<"yh", "YH">>, <<"yi", "YI">>,
      <<"yj", "YJ">>, <<"yk", "YK">>, <<"yl", "YL">>, <<"ym", "YM">>, <<"yn", "YN">>,
      <<"yo", "YO">>, <<"yp", "YP">>, <<"yq", "YQ">>, <<"yr", "YR">>, <<"ys", "YS">>,
      <<"yt", "YT">>, <<"yu", "YU">>, <<"yv", "YV">>, <<"yw", "YW">>, <<"yx", "YX">>,
      <<"yy", "YY">>, <<"yz", "YZ">>, <<"za", "ZA">>, <<"zb", "ZB">>, <<"zc", "ZC">>,
      <<"zd", "ZD">>, <<"ze", "ZE">>, <<"zf", "ZF">>, <<"zg", "ZG">>, <<"zh", "ZH">>,
      <<"zi", "ZI">>, <<"zj", "ZJ">>, <<"zk", "ZK">>, <<"zl", "ZL">>, <<"zm", "ZM">>,
      <<"zn", "ZN">>, <<"zo", "ZO">>, <<"zp", "ZP">>, <<"zq", "ZQ">>, <<"zr", "ZR">>,
      <<"zs", "ZS">>, <<"zt", "ZT">>, <<"zu", "ZU">>, <<"zv", "ZV">>, <<"zw", "ZW">>,
      <<"zx", "ZX">>, <<"zy", "ZY">>, <<"zz", "ZZ">>>>

\* str.upper() of a country code, token by token
UpperStr(s) ==
    [i \in 1..Len(s) |->
        IF \E k \in 1..Len(UpperCodes) : UpperCodes[k][1] = s[i]
        THEN UpperCodes[CHOOSE k \in 1..Len(UpperCodes) : UpperCodes[k][1] = s[i]][2]
        ELSE s[i]]

\* reverse_geocode(lat, lon) for the outcome resp of its requests.get; its
\* except clause catches every exception
reverse_geocode(lat, lon, resp) ==
    IF resp.kind \in {"timeout", "error"}
    THEN [error |-> TRUE, message |-> <<"Reverse geocoding error: ">>]
    ELSE IF resp.status # 200
    THEN [error |-> TRUE, message |-> <<"Reverse geocoding unavailable">>]
    ELSE IF ~resp.json_ok
    THEN [error |-> TRUE, message |-> <<"Reverse geocoding error: ">>]
    ELSE LET address == Get(resp.body, "address", <<>>)
             name(k, rest) == IF Len(Get(address, k, <<>>)) > 0 THEN address[k] ELSE rest
             code == UpperStr(Get(address, "country_code", <<>>))
         IN  [error |-> FALSE,
              city_name |-> name("city", name("town", name("village",
                            name("municipality", name("county", <<"Unknown Location">>))))),
              country |-> IF Len(code) > 0 THEN code ELSE Get(address, "country", <<>>)]

\* get_weather_by_coordinates(lat, lon) for the outcomes of the reverse
\* geocoding and of the forecast request
get_weather_by_coordinates(lat, lon, rev_resp, fc_resp) ==
    LET geo_result == reverse_geocode(lat, lon, rev_resp)
        city_name == IF ~geo_result.error
                     THEN Get(geo_result, "city_name", <<"Your Location">>)
                     ELSE <<"Your Location">>
        country == IF ~geo_result.error THEN Get(geo_result, "country", <<>>) ELSE <<>>
    IN  forecast_weather(fc_resp, city_name, country)

\* -------------------------------------------------- services/traffic.py
\* Coordinates are integers, in tenths of a degree.

\* name.strip().lower() of _get_representative_coords, token by token
LowerName(name) ==
    LET t == strip(name) IN
    [i \in 1..Len(t) |-> CASE t[i] = "UK" -> "uk"
                           [] t[i] = "United Kingdom" -> "united kingdom"
                           [] t[i] = "Bangladesh" -> "bangladesh"
                           [] t[i] = "Ukraine" -> "ukraine"
                           [] t[i] = "Dhaka" -> "dhaka"
                           [] t[i] = "London" -> "london"
                           [] OTHER -> t[i]]

\* the mapping of _get_representative_coords
RepresentativeMapping ==
    [k \in {"us", "usa", "united states", "united states of america"} |-> <<407, -740>>]
    @@ [k \in {"uk", "united kingdom", "great britain"} |-> <<515, -1>>]
    @@ ("bangladesh" :> <<238, 904>>)
    @@ ("india" :> <<191, 729>>)
    @@ ("australia" :> <<-339, 1512>>)
    @@ ("canada" :> <<437, -794>>)
    @@ ("france" :> <<489, 24>>)
    @@ ("japan" :> <<357, 1397>>)
    @@ ("germany" :> <<525, 134>>)
    @@ ("europe" :> <<489, 24>>)
    @@ ("asia" :> <<357, 1397>>)

\* the first key of the mapping, in its order, that the lower-case token
\* starts with (key.startswith(k)), or "" when there is none
FirstKeyPrefix(t) ==
    CASE t = "ukraine" -> "uk"
      [] t \in DOMAIN RepresentativeMapping ->
            (IF t \in {"usa", "united states", "united states of america"} THEN
                 (IF t = "usa" THEN "us" ELSE "united states")
             ELSE t)
      [] OTHER -> ""

\* _get_representative_coords(name): Optional (lat, lon)
_get_representative_coords(name) ==
    LET key == LowerName(name) IN
    IF Len(name) = 0 THEN None
    ELSE IF Len(key) = 1 /\ key[1] \in DOMAIN RepresentativeMapping
    THEN Some(RepresentativeMapping[key[1]])
    ELSE IF Len(key) > 0 /\ FirstKeyPrefix(key[1]) # ""
    THEN Some(RepresentativeMapping[FirstKeyPrefix(key[1])])
    ELSE None

\* response.raise_for_status() raises for a 4xx or 5xx status
StatusRaises(status) == status >= 400

\* _geocode_city(city) for the outcome resp of its requests.get: Optional (lat, lon)
_geocode_city(tomtom_key, city, resp) ==
    IF Len(tomtom_key) = 0 THEN None
    ELSE IF resp.kind \in {"timeout", "error"} \/ StatusRaises(resp.status) \/ ~resp.json_ok
    THEN _get_representative_coords(city)
    ELSE LET results == Get(resp.body, "results", <<>>) IN
         IF Len(results) > 0
         THEN IF "position" \in DOMAIN results[1]
                 /\ {"lat", "lon"} \subseteq DOMAIN results[1].position
              THEN Some(<<results[1].position.lat, results[1].position.lon>>)
              ELSE _get_representative_coords(city)
         ELSE _get_representative_coords(city)

\* whether _geocode_city makes its request
geocode_city_calls(tomtom_key) == Len(tomtom_key) > 0

\* congestion_level with strict comparisons: a boundary ratio falls in the
\* more congested bucket
congestion_level_strict(current_speed, free_flow_speed) ==
    IF free_flow_speed > 0
    THEN IF 10 * current_speed > 9 * free_flow_speed THEN "free"
         ELSE IF 10 * current_speed > 7 * free_flow_speed THEN "light"
         ELSE IF 10 * current_speed > 5 * free_flow_speed THEN "moderate"
         ELSE IF 10 * current_speed > 3 * free_flow_speed THEN "heavy"
         ELSE "jammed"
    ELSE "free"

\* the congestion level of _fetch_tomtom_traffic for integer speeds; the
\* comparisons of speed_ratio = current_speed / free_flow_speed with 0.9,
\* 0.7, 0.5 and 0.3 are exact for integers when cross-multiplied
congestion_level(current_speed, free_flow_speed) ==
    IF free_flow_speed > 0
    THEN IF 10 * current_speed >= 9 * free_flow_speed THEN "free"
         ELSE IF 10 * current_speed >= 7 * free_flow_speed THEN "light"
         ELSE IF 10 * current_speed >= 5 * free_flow_speed THEN "moderate"
         ELSE IF 10 * current_speed >= 3 * free_flow_speed THEN "heavy"
         ELSE "jammed"
    ELSE "free"

\* the RoadCondition of one flow segment, as _road_to_dict returns it
road_condition(segment) ==
    [road_name |-> Get(segment, "streetName", <<"Unknown Road">>),
     congestion_level |-> congestion_level(Get(segment, "currentSpeed", 50),
                                           Get(segment, "freeFlowSpeed", 80)),
     speed_kmh |-> Get(segment, "currentSpeed", 50),
     normal_speed_kmh |-> Get(segment, "freeFlowSpeed", 80)]

\* the TrafficIncident of one provider incident, as _incident_to_dict returns it
traffic_incident(incident) ==
    LET properties == Get(incident, "properties", <<>>)
        icon_category == Get(properties, "iconCategory", 0)
        delay == Get(properties, "delay", 0)
    IN  [incident_type |-> IF icon_category \in {0, 1, 2, 3} THEN "accident"
                           ELSE IF icon_category \in {4, 5, 6} THEN "construction"
                           ELSE IF icon_category \in {7, 8} THEN "road_closure"
                           ELSE "incident",
         severity |-> IF delay > 30 THEN "critical"
                      ELSE IF delay > 15 THEN "major"
                      ELSE "minor",
         road_name |-> <<"Unknown Road">>,
         description |-> Get(properties, "description", <<"Traffic incident">>),
         delay_minutes |-> delay]

\* an incident whose startTime datetime.fromisoformat rejects
BadStartTime(incident) == Get(Get(incident, "properties", <<>>), "startTime", "iso") = "bad"

\* _fetch_tomtom_incidents(latitude, longitude) for the outcome resp of its
\* requests.get: the list of incident dicts; every exception gives []
_fetch_tomtom_incidents(tomtom_key, latitude, longitude, resp) ==
    IF Len(tomtom_key) = 0 THEN <<>>
    ELSE IF resp.kind \in {"timeout", "error"} THEN <<>>
    ELSE IF resp.status # 200 THEN <<>>
    ELSE IF ~resp.json_ok THEN <<>>
    ELSE IF "incidents" \notin DOMAIN resp.body THEN <<>>
    ELSE LET taken == Prefix(resp.body.incidents, 5) IN
         IF \E i \in 1..Len(taken) : BadStartTime(taken[i]) THEN <<>>
         ELSE [i \in 1..Len(taken) |-> traffic_incident(taken[i])]

\* _fetch_tomtom_traffic(latitude, longitude) for the outcomes of the flow
\* request and of the incidents request.  flowSegmentData is given as the
\* list of segments (the code wraps a single segment in a list).
_fetch_tomtom_traffic(tomtom_key, latitude, longitude, flow_resp, inc_resp) ==
    IF Len(tomtom_key) = 0
    THEN [error |-> TRUE,
          message |-> <<"TomTom API key not configured. Get a free key at https://developer.tomtom.com/">>,
          road_conditions |-> <<>>,
          incidents |-> <<>>]
    ELSE IF flow_resp.kind \in {"timeout", "error"} \/ StatusRaises(flow_resp.status)
    THEN [error |-> TRUE,
          message |-> <<"TomTom API request failed: ">>,
          road_conditions |-> <<>>,
          incidents |-> <<>>]
    ELSE IF ~flow_resp.json_ok
    THEN [error |-> TRUE,
          message |-> IF JsonRaisesRequestException(flow_resp)
                      THEN <<"TomTom API request failed: ">>
                      ELSE <<"Error parsing TomTom traffic data: ">>,
          road_conditions |-> <<>>,
          incidents |-> <<>>]
    ELSE LET segments == Get(flow_resp.body, "flowSegmentData", <<>>) IN
         [error |-> FALSE,
          message |-> <<"Traffic data fetched successfully from TomTom (Open Traffic)">>,
          road_conditions |-> [i \in 1..Len(segments) |-> road_condition(segments[i])],
          incidents |-> _fetch_tomtom_incidents(tomtom_key, latitude, longitude, inc_resp),
          data_source |-> <<"Open Traffic by World Bank (TomTom API)">>,
          city |-> <<"Unknown">>,
          country |-> <<"Unknown">>]

\* whether _fetch_tomtom_traffic makes the flow request, and the incidents request
fetch_calls_flow(tomtom_key) == Len(tomtom_key) > 0
fetch_calls_incidents(tomtom_key, flow_resp) ==
    /\ Len(tomtom_key) > 0
    /\ flow_resp.kind = "http" /\ ~StatusRaises(flow_resp.status) /\ flow_resp.json_ok

\* seconds a cached traffic result stays valid (self.cache_timeout)
CacheTimeout == 300

\* `not latitude` for an Optional number: None and 0 are falsy
Falsy(o) == IsNone(o) \/ Val(o) = 0

\* the news fallback of get_realtime_traffic, for the result news_alerts of
\* get_traffic_alerts; api_error tells the first fallback (provider error)
\* from the second (no coverage)
traffic_news_fallback(news_alerts, api_error) ==
    IF ~Get(news_alerts, "error", TRUE)
    THEN [error |-> FALSE,
          message |-> IF api_error
                      THEN <<"Traffic data from Google News RSS (TomTom Open Traffic API failed)">>
                      ELSE <<"Traffic data from Google News RSS (TomTom Open Traffic not available for this location)">>,
          road_conditions |-> <<>>,
          incidents |-> <<>>,
          traffic_alerts |-> Get(news_alerts, "alerts", <<>>),
          has_high_priority_alerts |-> Get(news_alerts, "has_high_priority", FALSE),
          data_source |-> IF api_error
                          THEN <<"Google News RSS (Open Traffic by World Bank - API Error)">>
                          ELSE <<"Google News RSS (Open Traffic by World Bank - No coverage)">>]
    ELSE [error |-> TRUE,
          message |-> <<"Traffic data unavailable.">>,
          road_conditions |-> <<>>,
          incidents |-> <<>>,
          traffic_alerts |-> <<>>,
          has_high_priority_alerts |-> FALSE,
          data_source |-> <<"No traffic data sources available">>]

IsUnknownRoad(rc) == Get(rc, "road_name", <<>>) = <<"Unknown Road">>

\* the placeholder test of get_realtime_traffic on a provider result
is_placeholder(traffic_data) ==
    LET road_conditions == Get(traffic_data, "road_conditions", <<>>) IN
    \/ Len(road_conditions) = 0
    \/ \A i \in 1..Len(road_conditions) : IsUnknownRoad(road_conditions[i])
    \/ Get(traffic_data, "city", <<>>) = <<"Unknown">>
    \/ Get(traffic_data, "country", <<>>) = <<"Unknown">>

\* get_realtime_traffic, lines 145-192: what is returned for the provider
\* result traffic_data, after the requests made so far; feed is the outcome
\* of the alert feed a fallback reads.  In the second fallback the local
\* name city has been rebound to the provider result's city.
traffic_from_provider(cache, now, city, cache_key, made, traffic_data, feed) ==
    IF Get(traffic_data, "error", FALSE)
    THEN [result |-> traffic_news_fallback(get_traffic_alerts(city, 5, feed), TRUE),
          calls |-> made \o << [api |-> "traffic_rss", city |-> city] >>,
          cache |-> cache]
    ELSE IF is_placeholder(traffic_data)
    THEN [result |-> traffic_news_fallback(
                        get_traffic_alerts(Get(traffic_data, "city", <<>>), 5, feed), FALSE),
          calls |-> made \o << [api |-> "traffic_rss",
                                city |-> Get(traffic_data, "city", <<>>)] >>,
          cache |-> cache]
    ELSE [result |-> traffic_data,
          calls |-> made,
          cache |-> [k \in DOMAIN cache \cup {cache_key} |->
                        IF k = cache_key
                        THEN [data |-> traffic_data, timestamp |-> now]
                        ELSE cache[k]]]

\* the requests _fetch_tomtom_traffic(lat, lon) makes, in order
fetch_calls(tomtom_key, lat, lon, flow_resp) ==
    (IF fetch_calls_flow(tomtom_key)
     THEN << [api |-> "tomtom_flow", lat |-> lat, lon |-> lon] >> ELSE <<>>)
    \o (IF fetch_calls_incidents(tomtom_key, flow_resp)
        THEN << [api |-> "tomtom_incidents", lat |-> lat, lon |-> lon] >> ELSE <<>>)

\* get_realtime_traffic, lines 96-192: after the coordinates coords (an
\* Optional pair) have been determined with the requests made
traffic_at_coords(tomtom_key, cache, now, city, cache_key, made, coords, io) ==
    IF IsNone(coords)
    THEN [result |-> [error |-> TRUE,
                      message |-> <<"Location not found and no traffic data available.">>,
                      road_conditions |-> <<>>,
                      incidents |-> <<>>,
                      data_source |-> <<"Open Traffic by World Bank (TomTom API) - Location not supported">>],
          calls |-> made,
          cache |-> cache]
    ELSE traffic_from_provider(cache, now, city, cache_key,
            made \o fetch_calls(tomtom_key, Val(coords)[1], Val(coords)[2], io.flow),
            _fetch_tomtom_traffic(tomtom_key, Val(coords)[1], Val(coords)[2], io.flow, io.inc),
            io.feed)

\* get_realtime_traffic, lines 87-94: the coordinates used, geocoding the
\* city when a coordinate is missing or zero
resolve_coords(tomtom_key, city, latitude, longitude, geo_resp) ==
    IF Falsy(latitude) \/ Falsy(longitude)
    THEN IF IsNone(_geocode_city(tomtom_key, city, geo_resp))
         THEN _get_representative_coords(city)
         ELSE _geocode_city(tomtom_key, city, geo_resp)
    ELSE Some(<<Val(latitude), Val(longitude)>>)

\* the geocoding request of get_realtime_traffic, when it is made
resolve_calls(tomtom_key, city, latitude, longitude) ==
    IF (Falsy(latitude) \/ Falsy(longitude)) /\ geocode_city_calls(tomtom_key)
    THEN << [api |-> "tomtom_geocode", city |-> city] >>
    ELSE <<>>

\* RealTimeTrafficService.get_realtime_traffic(city, latitude, longitude) of
\* a service whose cache is cache, at time now, for the outcomes io of the
\* requests it may make (io.geo the geocoding, io.flow the flow request,
\* io.inc the incidents request, io.feed the alert feed).  Returns the
\* result, the provider requests made, in order, and the cache afterwards.
service_get_realtime_traffic(tomtom_key, cache, now, city, latitude, longitude, io) ==
    IF <<city, latitude, longitude>> \in DOMAIN cache
       /\ now - cache[<<city, latitude, longitude>>].timestamp < CacheTimeout
    THEN [result |-> cache[<<city, latitude, longitude>>].data, calls |-> <<>>, cache |-> cache]
    ELSE traffic_at_coords(tomtom_key, cache, now, city, <<city, latitude, longitude>>,
                           resolve_calls(tomtom_key, city, latitude, longitude),
                           resolve_coords(tomtom_key, city, latitude, longitude, io.geo), io)

\* the module-level get_realtime_traffic(city, latitude, longitude): it
\* constructs a RealTimeTrafficService, whose cache is empty, for each call
get_realtime_traffic(tomtom_key, now, city, latitude, longitude, io) ==
    service_get_realtime_traffic(tomtom_key, <<>>, now, city, latitude, longitude, io)

\* ---------------------------------------------------------- app/main.py
\* Inputs of the model: the requests, the environment and the outcomes of
\* the external providers.

\* a provider outcome: a transport failure, or an HTTP response
NoBody == [no_body |-> TRUE]
Timeout == [kind |-> "timeout", status |-> 0, json_ok |-> FALSE, body |-> NoBody]
ConnError == [kind |-> "error", status |-> 0, json_ok |-> FALSE, body |-> NoBody]
Http(status, body) == [kind |-> "http", status |-> status, json_ok |-> TRUE, body |-> body]
\* a response whose .json() raises.  requests >= 2.27 raises
\* requests.exceptions.JSONDecodeError, a RequestException; older versions
\* raise a plain ValueError.  json_exc tells which one the build raises.
BadJson(status) ==
    [kind |-> "http", status |-> status, json_ok |-> FALSE, body |-> NoBody,
     json_exc |-> "JSONDecodeError"]
BadJsonOld(status) ==
    [kind |-> "http", status |-> status, json_ok |-> FALSE, body |-> NoBody,
     json_exc |-> "ValueError"]
\* the outcome of a request that is not made
NotCalled == [kind |-> "not_called", status |-> 0, json_ok |-> FALSE, body |-> NoBody]

RequestCities == {None, Some(<<" ">>), Some(<<" ", "UK", " ">>)}
RequestCoords == {<<None, None>>, <<Some(238), None>>,
                  <<Some(238), Some(904)>>, <<Some(0), Some(904)>>}
Requests == {[city |-> c, latitude |-> ll[1], longitude |-> ll[2]] :
                c \in RequestCities, ll \in RequestCoords}

GeminiKeys == {None, Some(<<>>), Some(<<"your_gemini_api_key_here">>), Some(<<"test_key">>)}
TomTomKeys == {<<>>, <<"tomtom_key">>}

\* Open-Meteo geocoding
GeoResponses ==
    {Timeout, Http(500, NoBody), BadJson(200), BadJsonOld(200),
     Http(200, [results |-> <<>>]),
     Http(200, [generationtime_ms |-> 1]),
     Http(200, [results |-> << [name |-> <<"United Kingdom">>, latitude |-> 515,
                                longitude |-> -1, country_code |-> <<"GB">>] >>]),
     Http(200, [results |-> << [name |-> <<"United Kingdom">>] >>])}

\* Open-Meteo forecast
ForecastResponses ==
    {Timeout, Http(503, NoBody), BadJson(200), BadJsonOld(200),
     Http(200, [current |-> [temperature_2m |-> Some(15), weather_code |-> 61]]),
     Http(200, [current |-> [temperature_2m |-> Some(35), weather_code |-> 0]]),
     Http(200, [current |-> [temperature_2m |-> None, weather_code |-> 0]])}

\* Nominatim reverse geocoding
ReverseResponses ==
    {Timeout, BadJson(200),
     Http(200, [address |-> [town |-> <<"Dhaka">>, country_code |-> <<"bd">>]]),
     Http(200, [error |-> <<"Unable to geocode">>])}

\* entries of an RSS feed
TitledEntry(title) == [title |-> title, link |-> <<"http://news/">> \o title]
UntitledEntry == [link |-> <<"http://news/1">>]

RECURSIVE SeqsUpTo(_, _)
SeqsUpTo(S, n) ==
    IF n = 0 THEN {<<>>}
    ELSE LET shorter == SeqsUpTo(S, n - 1) IN
         shorter \cup {Append(q, x) : q \in {r \in shorter : Len(r) = n - 1}, x \in S}

FeedOk(entries) == [kind |-> "ok", entries |-> entries]
FeedRaise == [kind |-> "raise", entries |-> <<>>]
FeedNotCalled == [kind |-> "not_called", entries |-> <<>>]

\* outcomes of feedparser.parse in get_local_news
NewsFeeds ==
    {FeedRaise} \cup
    {FeedOk(es) : es \in SeqsUpTo({TitledEntry(<<"Cricket", "win">>), UntitledEntry}, MaxEntries)}

\* outcomes of feedparser.parse in generate_plan's own get_traffic_alerts
MainAlertFeeds ==
    {FeedRaise,
     FeedOk(<< TitledEntry(<<"Dhaka", "Traffic", "jam">>), TitledEntry(<<"Fire", "downtown">>) >>)}

\* outcomes of feedparser.parse in the get_traffic_alerts of the traffic lookup
AlertFeeds ==
    {FeedRaise,
     FeedOk(<<>>),
     FeedOk(<< TitledEntry(<<"Cricket", "win">>), TitledEntry(<<"Dhaka", "Traffic", "jam">>) >>),
     FeedOk(<< TitledEntry(<<"Dhaka", "Traffic", "jam">>), TitledEntry(<<"Fire", "downtown">>) >>)}

\* TomTom geocoding
TomTomGeoResponses ==
    {Http(200, [results |-> <<>>]),
     Http(200, [results |-> << [position |-> [lat |-> 238, lon |-> 904]] >>])}

\* TomTom flow
FlowResponses ==
    {Timeout, Http(403, NoBody), BadJson(200), BadJsonOld(200),
     Http(200, [detailedError |-> <<"no data">>]),
     Http(200, [flowSegmentData |-> << [currentSpeed |-> 20, freeFlowSpeed |-> 80] >>]),
     Http(200, [flowSegmentData |-> << [streetName |-> <<"Mirpur Road">>,
                                        currentSpeed |-> 20, freeFlowSpeed |-> 80] >>])}

\* TomTom incidents
IncidentResponses ==
    {ConnError,
     Http(200, [incidents |-> << [properties |-> [iconCategory |-> 1, delay |-> 45]] >>])}

\* Gemini generateContent
Candidate(text) == [content |-> [parts |-> << [text |-> text] >>]]
ModelResponses ==
    {Timeout, ConnError, Http(400, NoBody), Http(403, NoBody), Http(500, NoBody), BadJson(200),
     Http(200, [candidates |-> << Candidate(<<" ", "Morning:", "walk", " ">>) >>]),
     Http(200, [candidates |-> << Candidate(<<" ", " ">>) >>]),
     Http(200, [candidates |-> <<>>]),
     Http(200, [promptFeedback |-> <<"blocked">>]),
     Http(200, [candidates |-> << [finishReason |-> <<"SAFETY">>] >>]),
     Http(200, [candidates |-> << [content |-> [parts |-> <<>>]] >>])}

VARIABLES
    env,                    \* [gemini_key, tomtom_key]: the process environment
    pc,                     \* position of generate_plan
    request,                \* the PlanRequest being handled
    city,                   \* Optional str: request.city stripped
    use_coordinates,
    weather_data,           \* result of the weather lookup
    display_city,
    errors,                 \* list of ServiceError
    news_result,            \* result of get_local_news
    traffic_io,             \* outcomes of the requests of the traffic lookup
    traffic_result,         \* result of get_realtime_traffic
    news_traffic,           \* Optional result of generate_plan's own get_traffic_alerts
    traffic_alerts_data,
    traffic_data_response,  \* Optional TrafficData
    ai_resp,                \* outcome of the model request
    ai_result,              \* result of generate_day_plan
    response,               \* Optional HTTP response of generate_plan
    calls,                  \* provider requests made for this request, in order
    fn_in,                  \* arguments of a service function called on its own
    fn_out                  \* its result

vars == <<env, pc, request, city, use_coordinates, weather_data, display_city, errors,
          news_result, traffic_io, traffic_result, news_traffic, traffic_alerts_data,
          traffic_data_response, ai_resp, ai_result, response, calls, fn_in, fn_out>>

locals == <<city, use_coordinates, weather_data, display_city, errors, news_result,
            traffic_io, traffic_result, news_traffic, traffic_alerts_data,
            traffic_data_response, ai_resp, ai_result>>

\* the value of a dict-valued variable before it is assigned
Unset == [unset |-> TRUE]
IsSet(x) == "unset" \notin DOMAIN x

\* the handler's variables before a request is received
NoRequest ==
    /\ pc = "idle"
    /\ request = Unset
    /\ city = None
    /\ use_coordinates = FALSE
    /\ weather_data = Unset
    /\ display_city = <<>>
    /\ errors = <<>>
    /\ news_result = Unset
    /\ traffic_io = Unset
    /\ traffic_result = Unset
    /\ news_traffic = None
    /\ traffic_alerts_data = <<>>
    /\ traffic_data_response = None
    /\ ai_resp = Unset
    /\ ai_result = Unset
    /\ response = None
    /\ calls = <<>>

Init ==
    /\ env \in {[gemini_key |-> g, tomtom_key |-> t] : g \in GeminiKeys, t \in TomTomKeys}
    /\ NoRequest
    /\ fn_in = Unset
    /\ fn_out = Unset

ServiceError(service, message) == [service |-> service, message |-> message]

\* an exception that leaves generate_plan: the framework answers 500
InternalError(exc) == [status |-> 500, exc |-> exc]

\* append_error inserting at the front of the list
prepend_error(errs, service, message) == <<ServiceError(service, message)>> \o errs

\* errors.append(ServiceError(service=.., message=..))
append_error(errs, service, message) == Append(errs, ServiceError(service, message))

\* generate_plan, line 79: use_coordinates
request_use_coordinates(req) == ~IsNone(req.latitude) /\ ~IsNone(req.longitude)

\* generate_plan, line 80: city
request_city(req) == IF IsNone(req.city) THEN None ELSE Some(strip(Val(req.city)))

\* request_rejected accepting a request that carries one coordinate
request_rejected_any_coordinate(req) ==
    /\ IsNone(req.latitude) /\ IsNone(req.longitude)
    /\ (IsNone(request_city(req)) \/ Len(Val(request_city(req))) = 0)

\* generate_plan, line 82: `not use_coordinates and not city`
request_rejected(req) ==
    ~request_use_coordinates(req)
    /\ (IsNone(request_city(req)) \/ Len(Val(request_city(req))) = 0)

\* display_city_of preferring the input city to the weather lookup's name
display_city_input_first(wd, c) ==
    IF ~Get(wd, "error", FALSE)
    THEN StrOr(c, Get(wd, "city_name", <<"Your Location">>))
    ELSE StrOr(c, <<"Your Location">>)

\* generate_plan, line 98: display_city, for a weather result wd that was returned
display_city_of(wd, c) ==
    IF ~Get(wd, "error", FALSE)
    THEN Get(wd, "city_name", StrOr(c, <<"Your Location">>))
    ELSE StrOr(c, <<"Your Location">>)

\* generate_plan, lines 78-83: a request arrives and is validated
ReceiveRequest(req) ==
    /\ pc = "idle"
    /\ LET coords == request_use_coordinates(req)
           c == request_city(req)
       IN  /\ request' = req
           /\ use_coordinates' = coords
           /\ city' = c
           /\ IF request_rejected(req)
              THEN /\ response' = Some([status |-> 400,
                        detail |-> <<"Either city name or coordinates (latitude/longitude) are required">>])
                   /\ pc' = "done"
              ELSE /\ response' = None
                   /\ pc' = "weather"
    /\ errors' = <<>>
    /\ calls' = <<>>
    /\ UNCHANGED <<fn_in, fn_out, env, weather_data, display_city, news_result, traffic_io, traffic_result,
                   news_traffic, traffic_alerts_data, traffic_data_response, ai_resp, ai_result>>

\* the provider requests of the weather lookup, in order
weather_calls(coords, c, geo_resp) ==
    IF coords
    THEN << [api |-> "reverse_geocode"], [api |-> "forecast"] >>
    ELSE << [api |-> "geocode"] >>
         \o (IF realtime_weather_calls_forecast(c, geo_resp)
             THEN << [api |-> "forecast"] >> ELSE <<>>)

\* generate_plan, lines 89-116: the weather lookup, has_weather, display_city
FetchWeather(geo_resp, rev_resp, fc_resp) ==
    /\ pc = "weather"
    /\ geo_resp.kind = "not_called" <=> use_coordinates
    /\ rev_resp.kind = "not_called" <=> ~use_coordinates
    /\ fc_resp.kind = "not_called"
          <=> (~use_coordinates /\ ~realtime_weather_calls_forecast(StrOr(city, <<>>), geo_resp))
    /\ LET wd == IF use_coordinates
                 THEN get_weather_by_coordinates(request.latitude, request.longitude,
                                                 rev_resp, fc_resp)
                 ELSE get_realtime_weather(StrOr(city, <<>>), geo_resp, fc_resp)
           has_weather == ~Get(wd, "error", FALSE)
       IN  /\ weather_data' = wd
           /\ calls' = calls \o weather_calls(use_coordinates, StrOr(city, <<>>), geo_resp)
           /\ IF IsRaised(wd)
              THEN /\ response' = Some(InternalError(wd.exc))
                   /\ pc' = "done"
                   /\ UNCHANGED <<display_city, errors>>
              ELSE /\ display_city' = display_city_of(wd, city)
                   /\ errors' = IF has_weather THEN errors
                                ELSE append_error(errors, "weather",
                                        Get(wd, "message", <<"Weather service unavailable">>))
                   /\ pc' = "news"
                   /\ UNCHANGED response
    /\ UNCHANGED <<fn_in, fn_out, env, request, city, use_coordinates, news_result, traffic_io, traffic_result,
                   news_traffic, traffic_alerts_data, traffic_data_response, ai_resp, ai_result>>

\* generate_plan, lines 118-137: the news lookup
FetchNews(feed) ==
    /\ pc = "news"
    /\ LET nr == get_local_news(display_city, DefaultPageSize, feed) IN
       /\ news_result' = nr
       /\ errors' = IF Get(nr, "error", FALSE)
                    THEN append_error(errors, "news",
                            Get(nr, "message", <<"News service unavailable">>))
                    ELSE errors
    /\ calls' = Append(calls, [api |-> "news_rss", city |-> display_city])
    /\ pc' = "traffic"
    /\ UNCHANGED <<fn_in, fn_out, env, request, city, use_coordinates, weather_data, display_city, traffic_io,
                   traffic_result, news_traffic, traffic_alerts_data, traffic_data_response,
                   ai_resp, ai_result, response>>

\* str.title() of a congestion level or of an incident type with "_" replaced by " "
TitleCase(t) ==
    CASE t = "heavy" -> "Heavy"
      [] t = "jammed" -> "Jammed"
      [] t = "accident" -> "Accident"
      [] t = "construction" -> "Construction"
      [] t = "road_closure" -> "Road Closure"
      [] t = "incident" -> "Incident"
      [] OTHER -> t

\* IsCongested that also takes a moderate road for congested
IsCongested_from_moderate(condition) ==
    condition.congestion_level \in {"moderate", "heavy", "jammed"}

\* generate_plan, line 155: the road conditions that get an alert
IsCongested(condition) == condition.congestion_level \in {"heavy", "jammed"}

\* generate_plan, lines 154-169: the alert of a heavy or jammed road condition
road_condition_alert(condition, data_source) ==
    [title |-> <<TitleCase(condition.congestion_level), " traffic on ">> \o condition.road_name,
     url |-> <<"#">>,
     source |-> data_source,
     alert_type |-> "traffic",
     priority |-> IF condition.congestion_level = "jammed" THEN "high" ELSE "medium"]

\* incident_alert that gives priority high to a major incident too
incident_alert_major_high(incident, data_source) ==
    [title |-> <<TitleCase(incident.incident_type), " on ">> \o incident.road_name,
     url |-> <<"#">>,
     source |-> data_source,
     alert_type |-> IF incident.incident_type \in {"accident", "road_closure"}
                    THEN "emergency" ELSE "traffic",
     priority |-> IF incident.severity \in {"critical", "major"} THEN "high" ELSE "medium"]

\* generate_plan, lines 172-185: the alert of an incident
incident_alert(incident, data_source) ==
    [title |-> <<TitleCase(incident.incident_type), " on ">> \o incident.road_name,
     url |-> <<"#">>,
     source |-> data_source,
     alert_type |-> IF incident.incident_type \in {"accident", "road_closure"}
                    THEN "emergency" ELSE "traffic",
     priority |-> IF incident.severity = "critical" THEN "high" ELSE "medium"]

\* generate_plan, lines 148-185: the alerts of a traffic result without error
structured_alerts(tr) ==
    LET congested == SelectSeq(Get(tr, "road_conditions", <<>>), IsCongested)
        incidents == Get(tr, "incidents", <<>>)
        source == Get(tr, "data_source", <<"Real-Time Traffic">>)
    IN  [i \in 1..Len(congested) |-> road_condition_alert(congested[i], source)]
        \o [i \in 1..Len(incidents) |-> incident_alert(incidents[i], source)]

\* generate_plan, lines 188-218: the TrafficData of a traffic result without error
traffic_data_of(tr) ==
    [error |-> FALSE,
     road_conditions |-> Get(tr, "road_conditions", <<>>),
     incidents |-> Get(tr, "incidents", <<>>),
     data_source |-> Get(tr, "data_source", <<"Unknown">>),
     is_simulated |-> Get(tr, "is_simulated", FALSE)]

\* the outcomes of the requests of one traffic lookup
TrafficIO(g, f, i, d, m) == [geo |-> g, flow |-> f, inc |-> i, feed |-> d, main_feed |-> m]

Made(cs, api) == \E k \in 1..Len(cs) : cs[k].api = api

\* io gives an outcome to exactly the requests that are made
OutcomesMatchCalls(io, cs, main_fallback) ==
    /\ Made(cs, "tomtom_geocode") <=> io.geo.kind # "not_called"
    /\ Made(cs, "tomtom_flow") <=> io.flow.kind # "not_called"
    /\ Made(cs, "tomtom_incidents") <=> io.inc.kind # "not_called"
    /\ Made(cs, "traffic_rss") <=> io.feed.kind # "not_called"
    /\ main_fallback <=> io.main_feed.kind # "not_called"

\* generate_plan, lines 139-143: the call of get_realtime_traffic
plan_traffic_lookup(io) ==
    get_realtime_traffic(env.tomtom_key, 0, display_city,
                         IF use_coordinates THEN request.latitude ELSE None,
                         IF use_coordinates THEN request.longitude ELSE None, io)

\* whether the traffic lookup of this request makes the request api, given
\* the outcomes io of the requests before it
TrafficCallMade(api, io) == pc = "traffic" /\ Made(plan_traffic_lookup(io).calls, api)

\* traffic_lookup_failed that takes every traffic result for a success
traffic_lookup_failed_never(tr) == FALSE

\* generate_plan, line 148: the negation of `not traffic_result.get("error", False)`
traffic_lookup_failed(tr) == Get(tr, "error", FALSE)

\* the alerts of the fallback left out of traffic_alerts_data
fallback_alerts_dropped(fallback) == <<>>

\* generate_plan, lines 223-224: traffic_alerts_data after the alerts of
\* generate_plan's own get_traffic_alerts have been appended to the empty list
fallback_alerts(fallback) == Get(fallback, "alerts", <<>>)

\* generate_plan, lines 145-229, for the value r (result and requests made)
\* of the traffic lookup: the alerts, the TrafficData and the fallback to
\* get_traffic_alerts
TrafficStage(io, r) ==
    /\ OutcomesMatchCalls(io, r.calls, traffic_lookup_failed(r.result))
    /\ traffic_io' = io
    /\ traffic_result' = r.result
    /\ news_traffic' = IF traffic_lookup_failed(r.result)
                       THEN Some(get_traffic_alerts(display_city, DefaultPageSize, io.main_feed))
                       ELSE None
    /\ calls' = calls \o r.calls
                \o (IF traffic_lookup_failed(r.result)
                    THEN << [api |-> "traffic_rss", city |-> display_city] >>
                    ELSE <<>>)
    /\ IF ~traffic_lookup_failed(r.result)
       THEN /\ traffic_alerts_data' = structured_alerts(r.result)
            /\ traffic_data_response' = Some(traffic_data_of(r.result))
            /\ UNCHANGED errors
       ELSE /\ traffic_data_response' = None
            /\ IF ~Get(Val(news_traffic'), "error", TRUE)
               THEN /\ traffic_alerts_data' = fallback_alerts(Val(news_traffic'))
                    /\ UNCHANGED errors
               ELSE /\ traffic_alerts_data' = <<>>
                    /\ errors' = append_error(errors, "traffic",
                                    Get(r.result, "message",
                                        <<"Real-time traffic service unavailable">>))

\* generate_plan, lines 139-229: the traffic lookup, the alerts and the
\* fallback to get_traffic_alerts
FetchTraffic(io) ==
    /\ pc = "traffic"
    /\ TrafficStage(io, plan_traffic_lookup(io))
    /\ pc' = "plan"
    /\ UNCHANGED <<fn_in, fn_out, env, request, city, use_coordinates, weather_data, display_city,
                   news_result, ai_resp, ai_result, response>>

\* partial_success taken from the weather lookup alone
partial_success_weather_only(has_weather, news_articles, ai_plan) ==
    [type |-> "bool", truthy |-> has_weather, text |-> <<>>]

\* the value of `has_weather or len(news_articles) > 0 or ai_plan`: the
\* first truthy operand, or the last one
partial_success_value(has_weather, news_articles, ai_plan) ==
    IF has_weather THEN [type |-> "bool", truthy |-> TRUE, text |-> <<>>]
    ELSE IF Len(news_articles) > 0 THEN [type |-> "bool", truthy |-> TRUE, text |-> <<>>]
    ELSE [type |-> "str", truthy |-> Len(ai_plan) > 0, text |-> ai_plan]

\* generate_plan, lines 231-278: the plan, the flags and the response
SynthesizePlan(resp) ==
    /\ pc = "plan"
    /\ day_plan_calls_model(env.gemini_key) <=> resp.kind # "not_called"
    /\ LET has_weather == ~Get(weather_data, "error", FALSE)
           news_articles == Get(news_result, "articles", <<>>)
           ar == generate_day_plan(env.gemini_key,
                                   IF has_weather THEN Some(weather_data) ELSE None,
                                   news_articles, Some(display_city),
                                   traffic_alerts_data, resp)
           errs == IF Get(ar, "error", FALSE)
                   THEN append_error(errors, "ai",
                            Get(ar, "message", <<"AI service unavailable">>))
                   ELSE errors
           ai_plan == Get(ar, "plan", <<"Unable to generate plan. Please try again later.">>)
           partial_success == partial_success_value(has_weather, news_articles, ai_plan)
       IN  /\ ai_resp' = resp
           /\ ai_result' = ar
           /\ calls' = calls \o (IF day_plan_calls_model(env.gemini_key)
                                 THEN << [api |-> "gemini",
                                          city |-> prompt_location(
                                                     IF has_weather THEN Some(weather_data)
                                                     ELSE None,
                                                     Some(display_city))] >>
                                 ELSE <<>>)
           /\ IF IsRaised(ar)
              THEN /\ response' = Some(InternalError(ar.exc))
                   /\ UNCHANGED errors
              ELSE /\ errors' = errs
                   /\ response' =
                        IF partial_success.type # "bool"
                        THEN Some(InternalError("ValidationError"))
                        ELSE Some([status |-> 200,
                                   body |-> [weather |-> IF has_weather THEN Some(weather_data)
                                                         ELSE None,
                                             news |-> news_articles,
                                             ai_plan |-> ai_plan,
                                             city |-> display_city,
                                             errors |-> errs,
                                             partial_success |-> partial_success.truthy,
                                             traffic_data |-> traffic_data_response,
                                             traffic_alerts |-> traffic_alerts_data,
                                             has_high_priority_alerts |->
                                                \E k \in 1..Len(traffic_alerts_data) :
                                                    traffic_alerts_data[k].priority = "high"]])
    /\ pc' = "done"
    /\ UNCHANGED <<fn_in, fn_out, env, request, city, use_coordinates, weather_data, display_city,
                   news_result, traffic_io, traffic_result, news_traffic,
                   traffic_alerts_data, traffic_data_response>>

\* the handler has returned; the process waits for the next request
Finish ==
    /\ pc = "done"
    /\ pc' = "idle"
    /\ request' = Unset
    /\ city' = None
    /\ use_coordinates' = FALSE
    /\ weather_data' = Unset
    /\ display_city' = <<>>
    /\ errors' = <<>>
    /\ news_result' = Unset
    /\ traffic_io' = Unset
    /\ traffic_result' = Unset
    /\ news_traffic' = None
    /\ traffic_alerts_data' = <<>>
    /\ traffic_data_response' = None
    /\ ai_resp' = Unset
    /\ ai_result' = Unset
    /\ response' = None
    /\ calls' = <<>>
    /\ UNCHANGED <<fn_in, fn_out, env>>

Next ==
    \/ \E req \in Requests : ReceiveRequest(req)
    \/ \E g \in GeoResponses \cup {NotCalled}, r \in ReverseResponses \cup {NotCalled},
          f \in ForecastResponses \cup {NotCalled} : FetchWeather(g, r, f)
    \/ \E feed \in NewsFeeds : FetchNews(feed)
    \/ \E g \in TomTomGeoResponses \cup {NotCalled} :
          /\ TrafficCallMade("tomtom_geocode",
                    TrafficIO(g, NotCalled, NotCalled, FeedNotCalled, FeedNotCalled))
                <=> g.kind # "not_called"
          /\ \E f \in FlowResponses \cup {NotCalled} :
                /\ TrafficCallMade("tomtom_flow",
                        TrafficIO(g, f, NotCalled, FeedNotCalled, FeedNotCalled))
                      <=> f.kind # "not_called"
                /\ \E i \in IncidentResponses \cup {NotCalled} :
                      /\ TrafficCallMade("tomtom_incidents",
                              TrafficIO(g, f, i, FeedNotCalled, FeedNotCalled))
                            <=> i.kind # "not_called"
                      /\ \E d \in AlertFeeds \cup {FeedNotCalled}, m \in MainAlertFeeds \cup {FeedNotCalled} :
                            FetchTraffic(TrafficIO(g, f, i, d, m))
    \/ \E resp \in ModelResponses \cup {NotCalled} : SynthesizePlan(resp)
    \/ Finish

Spec == Init /\ [][Next]_vars

\* ------------------------------------------- get_local_news on its own
\* cities get_local_news is called with
NewsCities == {<<"Dhaka">>, <<"London">>, <<"New", " ", "York">>, <<"UK">>, <<"Your Location">>}

\* outcomes of feedparser.parse for a call of get_local_news on its own
LocalNewsFeeds ==
    {FeedRaise} \cup
    {FeedOk(es) : es \in SeqsUpTo({TitledEntry(<<"Cricket", "win">>),
                                   TitledEntry(<<"Dhaka", "Traffic", "jam">>),
                                   UntitledEntry}, MaxEntries)}

InitNews ==
    /\ env = [gemini_key |-> None, tomtom_key |-> <<>>]
    /\ NoRequest
    /\ fn_in \in {[fn |-> "get_local_news", city |-> c, page_size |-> DefaultPageSize,
                   feed |-> f] : c \in NewsCities, f \in LocalNewsFeeds}
    /\ fn_out = Unset

\* one call get_local_news(city) with its default page_size
CallLocalNews ==
    /\ fn_in.fn = "get_local_news"
    /\ ~IsSet(fn_out)
    /\ fn_out' = get_local_news(fn_in.city, fn_in.page_size, fn_in.feed)
    /\ UNCHANGED <<env, pc, request, locals, response, calls, fn_in>>

NextNews == CallLocalNews

SpecNews == InitNews /\ [][NextNews]_vars

\* ------------------------------------------------------------ properties
\* the request names a place: a city that is not blank, or both coordinates
HasLocation(req) ==
    \/ ~IsNone(req.city) /\ \E i \in 1..Len(Val(req.city)) : Val(req.city)[i] # WS
    \/ ~IsNone(req.latitude) /\ ~IsNone(req.longitude)

\* the handler has answered with an AggregateResponse
Answered == ~IsNone(response) /\ Val(response).status = 200

\* the weather lookup of this request returned a success
WeatherOk == IsSet(weather_data) /\ ~IsRaised(weather_data) /\ ~Get(weather_data, "error", FALSE)

\* the rule-based plan for the weather, news and city of this request
ExpectedFallbackPlan ==
    generate_fallback_plan(IF WeatherOk THEN Some(weather_data) ELSE None,
                           Get(news_result, "articles", <<>>), Some(display_city), WeatherOk)

\* C1: a request that names a place, and whose weather lookup returned, is
\* answered with an AggregateResponse whatever the outcomes of the stages
\* are, the absence of an AI credential included; only a request without a
\* place gets an error status.
C1_OnlyMissingLocationFails ==
    pc = "done" /\ ~IsRaised(weather_data) =>
        IF HasLocation(request)
        THEN Val(response).status = 200
        ELSE Val(response).status = 400

\* C2: without a model credential (GEMINI_API_KEY unset, empty or the
\* placeholder) generate_day_plan makes no model call, does not raise, and
\* returns error=True, a message and the rule-based fallback plan for the
\* same weather, news and city.
C2_NoCredentialReturnsFallback ==
    IsSet(ai_result) /\ KeyMissing(env.gemini_key) =>
        /\ ~Made(calls, "gemini")
        /\ ~IsRaised(ai_result)
        /\ Get(ai_result, "error", FALSE)
        /\ Len(Get(ai_result, "message", <<>>)) > 0
        /\ Get(ai_result, "plan", <<>>) = ExpectedFallbackPlan

\* C3: every result generate_day_plan returns carries a non-empty plan text,
\* whatever the outcome of the model call, so ai_plan of every
\* AggregateResponse is non-empty.
C3_PlanTextNonEmpty ==
    /\ IsSet(ai_result) /\ ~IsRaised(ai_result) => Len(ai_result.plan) > 0
    /\ Answered => Len(Val(response).body.ai_plan) > 0

\* the model call returned status 200 with a candidate that carries a text
WellFormed(resp) ==
    /\ resp.kind = "http" /\ resp.status = 200 /\ resp.json_ok
    /\ Len(Get(resp.body, "candidates", <<>>)) > 0
    /\ Len(Get(Get(resp.body.candidates[1], "content", NoBody), "parts", <<>>)) > 0
    /\ "text" \in DOMAIN resp.body.candidates[1].content.parts[1]

CandidateText(resp) == resp.body.candidates[1].content.parts[1].text

\* C4: with a credential configured, generate_day_plan returns error=False
\* and the model's text, trimmed, exactly when the model call returns 200
\* with a well-formed candidate; in every other outcome it returns
\* error=True, a message and generate_fallback_plan(weather, news, city,
\* has_weather) for the same inputs.
C4_ModelTextOrFallback ==
    IsSet(ai_result) /\ ~KeyMissing(env.gemini_key) =>
        /\ Made(calls, "gemini")
        /\ ~IsRaised(ai_result)
        /\ IF WellFormed(ai_resp)
           THEN /\ ~ai_result.error
                /\ ai_result.plan = strip(CandidateText(ai_resp))
           ELSE /\ ai_result.error
                /\ Len(Get(ai_result, "message", <<>>)) > 0
                /\ ai_result.plan = ExpectedFallbackPlan

\* a model text with surrounding whitespace was returned trimmed
C4_Witness ==
    /\ IsSet(ai_result) /\ ~KeyMissing(env.gemini_key)
    /\ WellFormed(ai_resp)
    /\ CandidateText(ai_resp) # strip(CandidateText(ai_resp))
    /\ Len(strip(CandidateText(ai_resp))) > 0
    /\ ~ai_result.error
    /\ ai_result.plan = strip(CandidateText(ai_resp))

\* C5: in every AggregateResponse partial_success is a boolean, true iff
\* weather succeeded or at least one article was obtained or the plan text
\* is non-empty, and every request whose stages returned gets such a
\* response.
C5_PartialSuccess ==
    pc = "done" /\ IsSet(ai_result) /\ ~IsRaised(ai_result) =>
        /\ Answered
        /\ Val(response).body.partial_success \in BOOLEAN
        /\ Val(response).body.partial_success
              <=> \/ WeatherOk
                  \/ Len(Val(response).body.news) > 0
                  \/ Len(Val(response).body.ai_plan) > 0

\* weather failed and the plan text is empty: the articles alone make
\* partial_success true
C5_Witness ==
    /\ Answered
    /\ ~WeatherOk
    /\ Len(Val(response).body.ai_plan) = 0
    /\ Len(Val(response).body.news) > 0
    /\ Val(response).body.partial_success = TRUE

\* C6: a request whose city is absent or blank and which does not carry both
\* coordinates is rejected with status 400, and no provider has been called.
C6_RejectedBeforeAnyCall ==
    IsSet(request) /\ ~HasLocation(request) =>
        /\ pc = "done"
        /\ Val(response).status = 400
        /\ calls = <<>>

\* a request with a blank city and one coordinate was rejected
C6_Witness ==
    /\ IsSet(request)
    /\ ~IsNone(request.city) /\ ~IsNone(request.latitude) /\ IsNone(request.longitude)
    /\ ~HasLocation(request)
    /\ pc = "done"
    /\ Val(response).status = 400
    /\ calls = <<>>

\* the city the response is to carry: the weather lookup's name, else the
\* trimmed input city, else "Your Location"
ExpectedCity ==
    IF WeatherOk THEN weather_data.city_name
    ELSE IF ~IsNone(request.city) /\ Len(strip(Val(request.city))) > 0
    THEN strip(Val(request.city))
    ELSE <<"Your Location">>

\* C7: the city of the response, which is the city given to the news, traffic
\* and plan stages, is the weather lookup's resolved name when weather
\* succeeded, else the trimmed input city if given, else "Your Location".
C7_DisplayCity ==
    IsSet(weather_data) /\ ~IsRaised(weather_data) =>
        /\ display_city = ExpectedCity
        /\ \A k \in 1..Len(calls) :
              calls[k].api \in {"news_rss", "tomtom_geocode", "gemini"}
                  => calls[k].city = ExpectedCity
        /\ pc = "plan" /\ ~IsNone(news_traffic) => calls[Len(calls)].city = ExpectedCity
        /\ IsSet(ai_result) /\ ~IsRaised(ai_result) /\ Get(ai_result, "error", FALSE)
              => ai_result.plan
                    = generate_fallback_plan(IF WeatherOk THEN Some(weather_data) ELSE None,
                                             Get(news_result, "articles", <<>>),
                                             Some(ExpectedCity), WeatherOk)
        /\ Answered => Val(response).body.city = ExpectedCity

\* coordinates without a city, weather resolved the name: the response and
\* the stages carry the resolved name
C7_Witness ==
    /\ Answered
    /\ IsNone(request.city)
    /\ WeatherOk
    /\ Val(response).body.city = <<"Dhaka">>
    /\ Made(calls, "tomtom_geocode")
    /\ Made(calls, "gemini")

\* the lookup of a service reported an error to generate_plan
Reported(service) ==
    CASE service = "weather" -> ~WeatherOk
      [] service = "news" -> Get(news_result, "error", FALSE)
      [] service = "traffic" ->
            /\ Get(traffic_result, "error", FALSE)
            /\ ~IsNone(news_traffic) /\ Get(Val(news_traffic), "error", TRUE)
      [] service = "ai" -> Get(ai_result, "error", FALSE)

ErrorServices(errs) == [i \in 1..Len(errs) |-> errs[i].service]

\* C8: the errors of an AggregateResponse hold at most one entry per service,
\* in the order weather, news, traffic, ai; weather, news and ai are present
\* exactly when that lookup reported an error, traffic exactly when the
\* traffic lookup and the news-derived alert fallback both reported one; the
\* weather field is absent exactly when the weather entry is present.
C8_ErrorList ==
    Answered =>
        /\ ErrorServices(Val(response).body.errors)
              = SelectSeq(<<"weather", "news", "traffic", "ai">>, Reported)
        /\ IsNone(Val(response).body.weather) <=> Reported("weather")

\* all four lookups failed
C8_Witness ==
    /\ Answered
    /\ ErrorServices(Val(response).body.errors) = <<"weather", "news", "traffic", "ai">>
    /\ IsNone(Val(response).body.weather)

\* text sub occurs in text s
ContainsStr(s, sub) ==
    \E i \in 0..(Len(s) - Len(sub)) : SubSeq(s, i + 1, i + Len(sub)) = sub

\* an entry get_local_news reads has no title: the attribute access raises
EntryRaises(feed, page_size) ==
    \E i \in 1..Min(Len(feed.entries), page_size) : "title" \notin DOMAIN feed.entries[i]

\* C9: get_local_news never returns an empty article list; when the provider
\* returns no entries or raises, the result carries exactly the three
\* fallback articles, each naming the queried city in its title, and the
\* error flag is set only when something raised.
C9_NewsNeverEmpty ==
    IsSet(fn_out) =>
        /\ Len(fn_out.articles) > 0
        /\ fn_in.feed.kind = "raise" \/ Len(fn_in.feed.entries) = 0 =>
              /\ Len(fn_out.articles) = 3
              /\ \A i \in 1..3 : ContainsStr(fn_out.articles[i].title, fn_in.city)
        /\ fn_out.error <=> fn_in.feed.kind = "raise" \/ EntryRaises(fn_in.feed, fn_in.page_size)

\* the provider returned no entries: three fallback articles, no error
C9_Witness ==
    /\ IsSet(fn_out)
    /\ fn_in.feed.kind = "ok" /\ Len(fn_in.feed.entries) = 0
    /\ Len(fn_out.articles) = 3
    /\ ~fn_out.error
    /\ fn_out.articles[1].title = <<"Local events and activities in ">> \o fn_in.city

\* the flow provider answered with a road segment that has a street name
FlowHasNamedSegment(resp) ==
    /\ resp.kind = "http" /\ resp.status = 200 /\ resp.json_ok
    /\ \E i \in 1..Len(Get(resp.body, "flowSegmentData", <<>>)) :
          Get(resp.body.flowSegmentData[i], "streetName", <<"Unknown Road">>)
              # <<"Unknown Road">>

\* C10: with credentials configured and a flow answer holding at least one
\* road segment with a real street name, get_realtime_traffic returns those
\* road conditions and not the news-derived fallback.
C10_StructuredWhenCovered ==
    IsSet(traffic_result) /\ Len(env.tomtom_key) > 0
        /\ FlowHasNamedSegment(traffic_io.flow) =>
            /\ Len(Get(traffic_result, "road_conditions", <<>>)) > 0
            /\ "traffic_alerts" \notin DOMAIN traffic_result

\* C11: get_realtime_traffic returns a terminal error (error=True) only after
\* the news-derived alert fallback was attempted for that call and failed,
\* on every path, missing credentials and a city that cannot be geocoded
\* included.
C11_TerminalErrorAfterFallback ==
    IsSet(traffic_result) /\ Get(traffic_result, "error", FALSE) =>
        /\ traffic_io.feed.kind # "not_called"
        /\ Get(get_traffic_alerts(display_city, 5, traffic_io.feed), "error", TRUE)

\* --------------------------------- the congestion level of a flow segment
\* largest speed (km/h) of a segment in the model
MaxSpeed == 20

InitCongestion ==
    /\ env = [gemini_key |-> None, tomtom_key |-> <<"tomtom_key">>]
    /\ NoRequest
    /\ fn_in \in {[fn |-> "road_condition",
                   segment |-> [streetName |-> <<"Mirpur Road">>,
                                currentSpeed |-> c, freeFlowSpeed |-> f]] :
                     c \in 0..MaxSpeed, f \in 0..MaxSpeed}
    /\ fn_out = Unset

\* _fetch_tomtom_traffic turns one flow segment into a road condition
CallRoadCondition ==
    /\ fn_in.fn = "road_condition"
    /\ ~IsSet(fn_out)
    /\ fn_out' = road_condition(fn_in.segment)
    /\ UNCHANGED <<env, pc, request, locals, response, calls, fn_in>>

NextCongestion == CallRoadCondition

SpecCongestion == InitCongestion /\ [][NextCongestion]_vars

\* the speed ratio current/free_flow in whole percent, rounded down
RatioPercent(current, free_flow) == (100 * current) \div free_flow

\* the bucket of a speed ratio given in percent
LevelOfPercent(pct) ==
    IF pct >= 90 THEN "free"
    ELSE IF pct >= 70 THEN "light"
    ELSE IF pct >= 50 THEN "moderate"
    ELSE IF pct >= 30 THEN "heavy"
    ELSE "jammed"

\* C12: for a positive free-flow speed the congestion level depends on the
\* ratio current/free_flow only: free from 0.9, light from 0.7, moderate from
\* 0.5, heavy from 0.3, jammed below, a boundary ratio falling in the less
\* congested bucket.
C12_CongestionByRatio ==
    IsSet(fn_out) /\ fn_in.fn = "road_condition" /\ fn_in.segment.freeFlowSpeed > 0 =>
        /\ fn_out.congestion_level
              = LevelOfPercent(RatioPercent(fn_in.segment.currentSpeed,
                                            fn_in.segment.freeFlowSpeed))
        /\ \A k \in 2..3 :
              congestion_level(k * fn_in.segment.currentSpeed, k * fn_in.segment.freeFlowSpeed)
                  = fn_out.congestion_level

\* a segment at exactly 0.7 of its free-flow speed is light, not moderate
C12_Witness ==
    /\ IsSet(fn_out) /\ fn_in.fn = "road_condition"
    /\ fn_in.segment.freeFlowSpeed = 20 /\ fn_in.segment.currentSpeed = 14
    /\ fn_out.congestion_level = "light"

\* ------------------------- the alerts generate_plan makes of a traffic result
\* most flow segments of a provider answer in the model
MaxSegments == 2

\* a flow segment of each congestion level: jammed, heavy, moderate, light, free
LevelSegments ==
    {[streetName |-> <<"Mirpur Road">>, currentSpeed |-> c, freeFlowSpeed |-> 10] :
        c \in {1, 3, 5, 7, 9}}

MaxIncidents == 2

\* provider incidents of each type (accident, construction, road closure,
\* other) with a delay that makes them critical or major
LevelIncidents ==
    {[properties |-> [iconCategory |-> c, delay |-> d]] : c \in {1, 5, 7, 9}, d \in {45, 20}}

\* outcomes of the incidents request: those of IncidentResponses and lists of
\* incidents of every type and severity
StructuredIncidentResponses ==
    IncidentResponses \cup
    {Http(200, [incidents |-> incs]) : incs \in SeqsUpTo(LevelIncidents, MaxIncidents)}

\* the structured results _fetch_tomtom_traffic produces
StructuredResults ==
    {_fetch_tomtom_traffic(<<"tomtom_key">>, 238, 904,
                           Http(200, [flowSegmentData |-> segs]), inc) :
        segs \in SeqsUpTo(LevelSegments, MaxSegments), inc \in StructuredIncidentResponses}

InitAlerts ==
    /\ env = [gemini_key |-> None, tomtom_key |-> <<"tomtom_key">>]
    /\ NoRequest
    /\ fn_in \in {[fn |-> "structured_alerts", traffic_result |-> tr] : tr \in StructuredResults}
    /\ fn_out = Unset

\* generate_plan, lines 148-185, on a traffic result without error
CallStructuredAlerts ==
    /\ fn_in.fn = "structured_alerts"
    /\ ~IsSet(fn_out)
    /\ fn_out' = [alerts |-> structured_alerts(fn_in.traffic_result)]
    /\ UNCHANGED <<env, pc, request, locals, response, calls, fn_in>>

NextAlerts == CallStructuredAlerts

SpecAlerts == InitAlerts /\ [][NextAlerts]_vars

\* an alert made of a road condition (its title is "<Level> traffic on <road>")
IsRoadAlert(alert) == Len(alert.title) >= 2 /\ alert.title[2] = " traffic on "

IsJammedOrHeavy(condition) == condition.congestion_level \in {"jammed", "heavy"}

\* C13: of a structured traffic result the orchestrator makes exactly one
\* TrafficAlert for each road condition that is jammed (priority high) or
\* heavy (priority medium), in order, and none for a moderate, light or free
\* road condition.
C13_AlertPerCongestedRoad ==
    IsSet(fn_out) /\ fn_in.fn = "structured_alerts" =>
        LET congested == SelectSeq(fn_in.traffic_result.road_conditions, IsJammedOrHeavy)
            road_alerts == SelectSeq(fn_out.alerts, IsRoadAlert)
        IN  /\ Len(road_alerts) = Len(congested)
            /\ \A i \in 1..Len(road_alerts) :
                  /\ road_alerts[i].alert_type = "traffic"
                  /\ road_alerts[i].priority
                        = (IF congested[i].congestion_level = "jammed" THEN "high" ELSE "medium")
                  /\ road_alerts[i].title[1]
                        = (IF congested[i].congestion_level = "jammed" THEN "Jammed" ELSE "Heavy")
                  /\ SubSeq(road_alerts[i].title, 3, Len(road_alerts[i].title))
                        = congested[i].road_name

\* a jammed road and a moderate road: one alert, of priority high
C13_Witness ==
    /\ IsSet(fn_out) /\ fn_in.fn = "structured_alerts"
    /\ Len(fn_in.traffic_result.road_conditions) = 2
    /\ fn_in.traffic_result.road_conditions[1].congestion_level = "jammed"
    /\ fn_in.traffic_result.road_conditions[2].congestion_level = "moderate"
    /\ Len(SelectSeq(fn_out.alerts, IsRoadAlert)) = 1
    /\ SelectSeq(fn_out.alerts, IsRoadAlert)[1].priority = "high"

\* ------------------------------------- generate_fallback_plan on its own
FallbackTemps == {5, 9, 10, 20, 30, 31, 35}
FallbackConditions == {"Rain", "Drizzle", "Thunderstorm", "Clear", "Clouds", "Snow"}

\* weather_data arguments: None, or a weather dict
FallbackWeather ==
    {None} \cup
    {Some([temp |-> t, condition |-> c, city_name |-> <<"Dhaka">>]) :
        t \in FallbackTemps, c \in FallbackConditions}

\* news_data arguments: no article, the three fallback articles, and lists
\* of feed articles whose first or second title is the empty string
FallbackNews ==
    {<<>>, get_fallback_news(<<"London">>),
     << news_article(TitledEntry(<<"Cricket", "win">>)), news_article(TitledEntry(<<>>)) >>,
     << news_article(TitledEntry(<<>>)), news_article(TitledEntry(<<"Cricket", "win">>)) >>,
     << news_article(TitledEntry(<<>>)) >>}

InitFallback ==
    /\ env = [gemini_key |-> None, tomtom_key |-> <<>>]
    /\ NoRequest
    /\ fn_in \in {[fn |-> "generate_fallback_plan", weather_data |-> w, news_data |-> n,
                   city |-> c, has_weather |-> h] :
                     w \in FallbackWeather,
                     n \in FallbackNews,
                     c \in {None, Some(<<"London">>)},
                     h \in BOOLEAN}
    /\ fn_out = Unset

\* one call generate_fallback_plan(weather_data, news_data, city, has_weather)
CallFallbackPlan ==
    /\ fn_in.fn = "generate_fallback_plan"
    /\ ~IsSet(fn_out)
    /\ fn_out' = [plan |-> generate_fallback_plan(fn_in.weather_data, fn_in.news_data,
                                                  fn_in.city, fn_in.has_weather)]
    /\ UNCHANGED <<env, pc, request, locals, response, calls, fn_in>>

NextFallback == CallFallbackPlan

SpecFallback == InitFallback /\ [][NextFallback]_vars

\* the call has weather: has_weather is true and a weather dict is given
FallbackHasWeather == fn_in.has_weather /\ ~IsNone(fn_in.weather_data)

\* the weather condition of the call is rain, storm or drizzle
FallbackWet == Val(fn_in.weather_data).condition \in {"Rain", "Drizzle", "Thunderstorm"}

\* C14: generate_fallback_plan advises by these rules: has_weather and a
\* condition containing "rain" give the umbrella line; no rain, storm or
\* drizzle and temp > 30 give the heat and hydration lines; no such condition
\* and temp < 10 give the cold, bundle-up line; has_weather false gives the
\* unavailable/flexible note and names the city argument.
C14_FallbackRules ==
    IsSet(fn_out) /\ fn_in.fn = "generate_fallback_plan" =>
        /\ FallbackHasWeather /\ Val(fn_in.weather_data).condition = "Rain"
              => Contains(fn_out.plan, "- Don't forget your umbrella! Rain is expected today.")
        /\ FallbackHasWeather /\ ~FallbackWet /\ Val(fn_in.weather_data).temp > 30
              => /\ Contains(fn_out.plan, "- Start your day early to avoid peak heat.")
                 /\ Contains(fn_out.plan, "- Stay hydrated - keep water with you.")
        /\ FallbackHasWeather /\ ~FallbackWet /\ Val(fn_in.weather_data).temp < 10
              => Contains(fn_out.plan, "- Bundle up! It's cold outside.")
        /\ ~fn_in.has_weather
              => /\ Contains(fn_out.plan,
                        "*Note: Weather data unavailable. Here are flexible recommendations:*\n")
                 /\ ~IsNone(fn_in.city) => ContainsStr(fn_out.plan, Val(fn_in.city))

\* rain at 35 degrees: the umbrella line, and no heat advice
C14_Witness ==
    /\ IsSet(fn_out) /\ fn_in.fn = "generate_fallback_plan"
    /\ FallbackHasWeather
    /\ Val(fn_in.weather_data).condition = "Rain" /\ Val(fn_in.weather_data).temp = 35
    /\ Contains(fn_out.plan, "- Don't forget your umbrella! Rain is expected today.")
    /\ ~Contains(fn_out.plan, "- Stay hydrated - keep water with you.")

\* C15: get_realtime_weather and get_weather_by_coordinates let no exception
\* escape: whatever the geocoding and forecast requests answer, a body that
\* lacks expected fields included, they return a result, and a result with
\* error=True carries a message.
C15_WeatherNeverRaises ==
    IsSet(weather_data) =>
        /\ ~IsRaised(weather_data)
        /\ "error" \in DOMAIN weather_data
        /\ weather_data.error => Len(Get(weather_data, "message", <<>>)) > 0

\* ------------------------------------------------- generate_followup alone
\* outcomes of the model request of generate_followup: those of ModelResponses
\* and further statuses and texts
FollowupResponses ==
    ModelResponses \cup
    {Http(429, NoBody), Http(503, NoBody),
     Http(200, [candidates |-> << Candidate(<<"Take", "an", "umbrella.">>) >>]),
     Http(200, [candidates |-> << Candidate(<<" ", "Try", "the", "museum.">>) >>]),
     Http(200, [candidates |-> << Candidate(<<"Yes.", " ", " ">>) >>])}

InitFollowup ==
    /\ env \in {[gemini_key |-> k, tomtom_key |-> <<>>] : k \in GeminiKeys}
    /\ NoRequest
    /\ fn_in \in {[fn |-> "generate_followup", resp |-> r] : r \in FollowupResponses}
    /\ fn_out = Unset

\* one call generate_followup(...): the result and whether the model was called
CallFollowup ==
    /\ fn_in.fn = "generate_followup"
    /\ ~IsSet(fn_out)
    /\ fn_out' = [result |-> generate_followup(env.gemini_key, fn_in.resp),
                  called |-> followup_calls_model(env.gemini_key)]
    /\ UNCHANGED <<env, pc, request, locals, response, calls, fn_in>>

NextFollowup == CallFollowup

SpecFollowup == InitFollowup /\ [][NextFollowup]_vars

\* the canned responses of generate_followup's failure results
FollowupApologies ==
    {<<"I'm sorry, I can't answer follow-up questions right now because my AI brain isn't fully connected.">>,
     <<"I'm having trouble thinking of a response right now. Please try again.">>,
     <<"I'm not sure how to answer that. Could you rephrase?">>,
     <<"Something went wrong while processing your request.">>}

\* C16: generate_followup never raises.  Without a credential it makes no
\* model call and returns error=True with its canned apology; with one, a
\* non-200 status, an unparseable body or an exception gives error=True with
\* a canned response, and a well-formed 200 gives error=False with the
\* model's text, trimmed.
C16_FollowupNeverRaises ==
    IsSet(fn_out) /\ fn_in.fn = "generate_followup" =>
        /\ ~IsRaised(fn_out.result)
        /\ IF KeyMissing(env.gemini_key)
           THEN /\ ~fn_out.called
                /\ fn_out.result.error
                /\ fn_out.result.response = <<"I'm sorry, I can't answer follow-up questions right now because my AI brain isn't fully connected.">>
           ELSE /\ fn_out.called
                /\ IF WellFormed(fn_in.resp)
                   THEN /\ ~fn_out.result.error
                        /\ fn_out.result.response = strip(CandidateText(fn_in.resp))
                   ELSE /\ fn_out.result.error
                        /\ fn_out.result.response \in FollowupApologies
                        /\ Len(Get(fn_out.result, "message", <<>>)) > 0

\* a model text with whitespace on both sides came back trimmed
C16_Witness ==
    /\ IsSet(fn_out) /\ fn_in.fn = "generate_followup"
    /\ ~KeyMissing(env.gemini_key)
    /\ WellFormed(fn_in.resp)
    /\ CandidateText(fn_in.resp) # strip(CandidateText(fn_in.resp))
    /\ Len(strip(CandidateText(fn_in.resp))) > 0
    /\ fn_out.result = [error |-> FALSE, response |-> strip(CandidateText(fn_in.resp))]

\* ------------------------------------- two calls of get_realtime_traffic
\* seconds between the two calls: the same instant, just inside and just
\* outside the cache lifetime
CacheElapsed == {0, CacheTimeout - 1, CacheTimeout}

\* outcomes of the requests one call of get_realtime_traffic may make
CacheIO ==
    {TrafficIO(g, f, i, d, FeedNotCalled) :
        g \in TomTomGeoResponses \cup {NotCalled},
        f \in FlowResponses \cup {NotCalled},
        i \in IncidentResponses \cup {NotCalled},
        d \in {FeedNotCalled, FeedRaise,
               FeedOk(<< TitledEntry(<<"Dhaka", "Traffic", "jam">>) >>)}}

InitCache ==
    /\ env \in {[gemini_key |-> None, tomtom_key |-> k] : k \in TomTomKeys}
    /\ NoRequest
    /\ fn_in \in {[fn |-> "get_realtime_traffic", city |-> <<"Dhaka">>,
                   latitude |-> ll[1], longitude |-> ll[2], elapsed |-> e] :
                     ll \in {<<None, None>>, <<Some(238), Some(904)>>},
                     e \in CacheElapsed}
    /\ fn_out = Unset

\* the module-level get_realtime_traffic(city, latitude, longitude) called at
\* time now with the outcomes io
cache_lookup(now, io) ==
    get_realtime_traffic(env.tomtom_key, now, fn_in.city, fn_in.latitude, fn_in.longitude, io)

\* the first call, at time 0: r is its value
FirstTrafficCall(io, r) ==
    /\ fn_in.fn = "get_realtime_traffic"
    /\ ~IsSet(fn_out)
    /\ OutcomesMatchCalls(io, r.calls, FALSE)
    /\ fn_out' = [first |-> r.result, first_io |-> io, first_calls |-> r.calls]
    /\ UNCHANGED <<env, pc, request, locals, response, calls, fn_in>>

\* the second call with the same arguments, fn_in.elapsed seconds later in
\* the same process: r is its value
SecondTrafficCall(io, r) ==
    /\ fn_in.fn = "get_realtime_traffic"
    /\ IsSet(fn_out) /\ "second" \notin DOMAIN fn_out
    /\ OutcomesMatchCalls(io, r.calls, FALSE)
    /\ fn_out' = [first |-> fn_out.first, first_io |-> fn_out.first_io,
                  first_calls |-> fn_out.first_calls,
                  second |-> r.result, second_calls |-> r.calls]
    /\ UNCHANGED <<env, pc, request, locals, response, calls, fn_in>>

NextCache ==
    \/ \E io \in CacheIO : FirstTrafficCall(io, cache_lookup(0, io))
    \/ \E io \in CacheIO : SecondTrafficCall(io, cache_lookup(fn_in.elapsed, io))

SpecCache == InitCache /\ [][NextCache]_vars

\* a result of get_realtime_traffic that is the provider's structured
\* traffic data (line 187), not the news fallback nor an error
ReturnsStructuredTraffic(r) ==
    /\ ~Get(r, "error", FALSE)
    /\ Get(r, "data_source", <<>>) = <<"Open Traffic by World Bank (TomTom API)">>

\* no first call of the public get_realtime_traffic returns the provider's
\* structured traffic data: the provider result always names the city
\* 'Unknown' and is replaced by the news fallback
FirstCallNeverStructured ==
    IsSet(fn_out) /\ fn_in.fn = "get_realtime_traffic" =>
        ~ReturnsStructuredTraffic(fn_out.first)

\* a second call that finds credentials and a flow answer asks the provider
\* again, however soon it follows the first
SecondCallAsksProvider ==
    /\ IsSet(fn_out) /\ fn_in.fn = "get_realtime_traffic"
    /\ "second" \in DOMAIN fn_out
    /\ Len(env.tomtom_key) > 0
    => \E k \in 1..Len(fn_out.second_calls) :
          fn_out.second_calls[k].api \in {"tomtom_flow", "tomtom_geocode"}

\* the number of requests to the provider api among the requests cs
Attempts(cs, api) == Cardinality({k \in 1..Len(cs) : cs[k].api = api})

\* C18: within one plan request no provider (weather geocoding, weather
\* forecast, news feed, traffic flow, traffic incidents, traffic-alert feed,
\* generative model) is requested more than once, whatever fails.
C18_AtMostOneAttempt ==
    \A k \in 1..Len(calls) : Attempts(calls, calls[k].api) <= 1

\* C19: every request that passes validation has, when its handling ends,
\* had the weather, news, traffic and plan stages invoked, each after the one
\* before it.
C19_AllStagesInvoked ==
    pc = "done" /\ IsSet(request) /\ HasLocation(request) =>
        /\ IsSet(weather_data)
        /\ IsSet(news_result)
        /\ IsSet(traffic_result)
        /\ IsSet(ai_result)

\* the last request made so far is the traffic-alert feed queried for city c
LastCallIsAlertFeed(c) ==
    Len(calls) > 0 /\ calls[Len(calls)] = [api |-> "traffic_rss", city |-> c]

\* C20: once the traffic stage has run, errors holds a traffic ServiceError
\* only if the traffic lookup reported an error and get_traffic_alerts, then
\* called with the display city, reported one too; when the lookup reported
\* an error and that fallback succeeded, errors holds no traffic entry and
\* the fallback's alerts are the traffic alerts of the response.
C20_TrafficErrorAfterFallback ==
    /\ pc = "plan" /\ IsSet(traffic_result) =>
        /\ (\E k \in 1..Len(errors) : errors[k].service = "traffic") =>
              /\ Get(traffic_result, "error", FALSE)
              /\ LastCallIsAlertFeed(display_city)
              /\ ~IsNone(news_traffic) /\ Get(Val(news_traffic), "error", TRUE)
              /\ errors[Len(errors)].service = "traffic"
        /\ Get(traffic_result, "error", FALSE) =>
              /\ LastCallIsAlertFeed(display_city)
              /\ ~IsNone(news_traffic)
              /\ Val(news_traffic) = get_traffic_alerts(display_city, DefaultPageSize,
                                                        traffic_io.main_feed)
              /\ ~Get(Val(news_traffic), "error", TRUE) =>
                    /\ \A k \in 1..Len(errors) : errors[k].service # "traffic"
                    /\ traffic_alerts_data = Val(news_traffic).alerts
    /\ Answered /\ Get(traffic_result, "error", FALSE)
          /\ ~IsNone(news_traffic) /\ ~Get(Val(news_traffic), "error", TRUE) =>
              /\ Val(response).body.traffic_alerts = Val(news_traffic).alerts
              /\ \A k \in 1..Len(Val(response).body.errors) :
                    Val(response).body.errors[k].service # "traffic"

\* the traffic lookup reported an error, the fallback then returned alerts,
\* and the response carries them with no traffic error
C20_Witness ==
    /\ Answered
    /\ Get(traffic_result, "error", FALSE)
    /\ Made(calls, "traffic_rss")
    /\ ~IsNone(news_traffic) /\ ~Get(Val(news_traffic), "error", TRUE)
    /\ Len(Val(news_traffic).alerts) > 0
    /\ Val(response).body.traffic_alerts = Val(news_traffic).alerts
    /\ \A k \in 1..Len(Val(response).body.errors) :
          Val(response).body.errors[k].service # "traffic"

\* some alert of the list has priority high
HasHighAlert(alerts) == \E k \in 1..Len(alerts) : alerts[k].priority = "high"

\* C21: when the traffic information of a request comes from the news
\* fallback, called by generate_plan itself or inside the traffic lookup, the
\* response's traffic_alerts is that alert list in the same order and
\* has_high_priority_alerts tells whether one of its alerts has priority high.
C21_FallbackAlertsReturned ==
    Answered =>
        /\ Get(traffic_result, "error", FALSE) /\ ~IsNone(news_traffic)
              /\ ~Get(Val(news_traffic), "error", TRUE) =>
                /\ Val(response).body.traffic_alerts = Val(news_traffic).alerts
                /\ Val(response).body.has_high_priority_alerts
                      <=> HasHighAlert(Val(news_traffic).alerts)
        /\ ~Get(traffic_result, "error", FALSE) /\ "traffic_alerts" \in DOMAIN traffic_result =>
                /\ Val(response).body.traffic_alerts = traffic_result.traffic_alerts
                /\ Val(response).body.has_high_priority_alerts
                      <=> HasHighAlert(traffic_result.traffic_alerts)

\* an alert made of an incident (its title is "<Type> on <road>")
IsIncidentAlert(alert) == Len(alert.title) >= 2 /\ alert.title[2] = " on "

\* C22: of a structured traffic result the orchestrator makes exactly one
\* TrafficAlert per incident, in order, after all road-condition alerts; its
\* priority is high exactly when the severity is critical, medium otherwise,
\* and its alert_type is emergency exactly when the incident is an accident
\* or a road closure, traffic otherwise.
C22_AlertPerIncident ==
    IsSet(fn_out) /\ fn_in.fn = "structured_alerts" =>
        LET incidents == fn_in.traffic_result.incidents
            alerts == fn_out.alerts
            roads == Len(alerts) - Len(incidents)
        IN  /\ roads >= 0
            /\ \A i \in 1..roads : IsRoadAlert(alerts[i]) /\ ~IsIncidentAlert(alerts[i])
            /\ \A i \in 1..Len(incidents) :
                  /\ IsIncidentAlert(alerts[roads + i])
                  /\ alerts[roads + i].priority \in {"high", "medium"}
                  /\ alerts[roads + i].priority = "high" <=> incidents[i].severity = "critical"
                  /\ alerts[roads + i].alert_type \in {"emergency", "traffic"}
                  /\ alerts[roads + i].alert_type = "emergency"
                        <=> incidents[i].incident_type \in {"accident", "road_closure"}

\* a jammed road, then a major road closure and a critical construction
\* site: three alerts, the incidents last, emergency/medium and traffic/high
C22_Witness ==
    /\ IsSet(fn_out) /\ fn_in.fn = "structured_alerts"
    /\ Len(fn_in.traffic_result.road_conditions) = 1
    /\ fn_in.traffic_result.road_conditions[1].congestion_level = "jammed"
    /\ Len(fn_in.traffic_result.incidents) = 2
    /\ fn_in.traffic_result.incidents[1].incident_type = "road_closure"
    /\ fn_in.traffic_result.incidents[1].severity = "major"
    /\ fn_in.traffic_result.incidents[2].incident_type = "construction"
    /\ fn_in.traffic_result.incidents[2].severity = "critical"
    /\ Len(fn_out.alerts) = 3
    /\ IsRoadAlert(fn_out.alerts[1])
    /\ fn_out.alerts[2].alert_type = "emergency" /\ fn_out.alerts[2].priority = "medium"
    /\ fn_out.alerts[3].alert_type = "traffic" /\ fn_out.alerts[3].priority = "high"

\* ----------------------------------------------- get_traffic_alerts alone
MaxPageSize == 2

\* headlines: one without keyword, one with a traffic keyword, one with an
\* emergency keyword, one with both ("road closure" contains "closure")
AlertHeadlines ==
    {TitledEntry(<<"Cricket", "win">>), TitledEntry(<<"Dhaka", "Traffic", "jam">>),
     TitledEntry(<<"Fire", "downtown">>), TitledEntry(<<"Road Closure", "ahead">>)}

\* outcomes of feedparser.parse in get_traffic_alerts: it raises, or gives a
\* feed of up to twice the largest page size entries, or one entry without title
TrafficAlertFeeds ==
    {FeedRaise, FeedOk(<<UntitledEntry>>)}
    \cup {FeedOk(es) : es \in SeqsUpTo(AlertHeadlines, 2 * MaxPageSize)}

InitTrafficAlerts ==
    /\ env = [gemini_key |-> None, tomtom_key |-> <<>>]
    /\ NoRequest
    /\ fn_in \in {[fn |-> "get_traffic_alerts", city |-> <<"Dhaka">>, page_size |-> n,
                   feed |-> f] : n \in 1..MaxPageSize, f \in TrafficAlertFeeds}
    /\ fn_out = Unset

\* one call get_traffic_alerts(city, page_size): its result, and the local
\* list alerts as the loop over the candidate headlines left it, before the
\* sort (empty when feedparser.parse raised or an entry had no title)
CallTrafficAlerts ==
    /\ fn_in.fn = "get_traffic_alerts"
    /\ ~IsSet(fn_out)
    /\ fn_out' = [result |-> get_traffic_alerts(fn_in.city, fn_in.page_size, fn_in.feed),
                  collected |-> IF fn_in.feed.kind = "raise" THEN <<>>
                                ELSE scan_traffic_entries(
                                        Prefix(fn_in.feed.entries, fn_in.page_size * 2),
                                        <<>>, fn_in.page_size).alerts]
    /\ UNCHANGED <<env, pc, request, locals, response, calls, fn_in>>

NextTrafficAlerts == CallTrafficAlerts

SpecTrafficAlerts == InitTrafficAlerts /\ [][NextTrafficAlerts]_vars

\* the candidate headlines of a call: feed.entries[:page_size * 2]
Candidates == Prefix(fn_in.feed.entries, fn_in.page_size * 2)

HasTrafficKeyword(entry) == KeywordsInTitle(entry.title, TRAFFIC_KEYWORDS) # {}
HasEmergencyKeyword(entry) == KeywordsInTitle(entry.title, EMERGENCY_KEYWORDS) # {}
Matches(entry) == HasTrafficKeyword(entry) \/ HasEmergencyKeyword(entry)

\* the number of elements of xs with title t
CountTitle(xs, t) == Cardinality({i \in 1..Len(xs) : xs[i].title = t})

\* C23: in a call of get_traffic_alerts that ends without error a candidate
\* headline becomes an alert exactly when its lower-cased title contains a
\* traffic or an emergency keyword: every alert the call builds is a
\* candidate headline with such a title, and every candidate headline with
\* such a title is among the alerts built; an alert has priority high and
\* alert_type emergency exactly when its title contains an emergency keyword,
\* a traffic keyword or not, and medium and traffic otherwise;
\* has_high_priority is true exactly when a returned alert has priority high.
C23_AlertClassification ==
    IsSet(fn_out) /\ fn_in.fn = "get_traffic_alerts" /\ ~fn_out.result.error =>
        LET alerts == fn_out.collected
            returned == fn_out.result.alerts
        IN
        /\ \A i \in 1..Len(alerts) :
              /\ Matches(alerts[i])
              /\ CountTitle(alerts, alerts[i].title) <= CountTitle(Candidates, alerts[i].title)
              /\ IF HasEmergencyKeyword(alerts[i])
                 THEN alerts[i].priority = "high" /\ alerts[i].alert_type = "emergency"
                 ELSE alerts[i].priority = "medium" /\ alerts[i].alert_type = "traffic"
        /\ \A i \in 1..Len(Candidates) :
              Matches(Candidates[i]) =>
                  CountTitle(alerts, Candidates[i].title)
                      = CountTitle(Candidates, Candidates[i].title)
        /\ fn_out.result.has_high_priority
              <=> \E i \in 1..Len(returned) : returned[i].priority = "high"

\* C24: the alerts get_traffic_alerts returns are the matching candidate
\* headlines sorted high-priority first and then cut to page_size: at most
\* page_size alerts, no medium alert before a high one, and no medium alert
\* returned while a candidate headline with an emergency keyword is left out.
C24_SortedThenCapped ==
    IsSet(fn_out) /\ fn_in.fn = "get_traffic_alerts" /\ ~fn_out.result.error =>
        LET alerts == fn_out.result.alerts IN
        /\ Len(alerts) <= fn_in.page_size
        /\ \A i, j \in 1..Len(alerts) :
              i < j /\ alerts[j].priority = "high" => alerts[i].priority = "high"
        /\ (\E i \in 1..Len(alerts) : alerts[i].priority = "medium") =>
              \A k \in 1..Len(Candidates) :
                  HasEmergencyKeyword(Candidates[k]) =>
                      CountTitle(alerts, Candidates[k].title)
                          = CountTitle(Candidates, Candidates[k].title)

\* ------------------------------------------------ the weather lookups alone
InitWeather ==
    /\ env = [gemini_key |-> None, tomtom_key |-> <<>>]
    /\ NoRequest
    /\ fn_in \in {[fn |-> "get_realtime_weather", city |-> c, geo |-> g, fc |-> f] :
                     c \in {<<"UK">>, <<"Atlantis">>}, g \in GeoResponses,
                     f \in ForecastResponses}
                 \cup {[fn |-> "get_weather_by_coordinates", lat |-> Some(238), lon |-> Some(904),
                        rev |-> r, fc |-> f] :
                          r \in ReverseResponses \cup {ConnError, Http(429, NoBody)},
                          f \in ForecastResponses}
    /\ fn_out = Unset

\* one call get_realtime_weather(city): the result and the requests made
CallRealtimeWeather ==
    /\ fn_in.fn = "get_realtime_weather"
    /\ ~IsSet(fn_out)
    /\ fn_out' = [result |-> get_realtime_weather(fn_in.city, fn_in.geo, fn_in.fc),
                  calls |-> weather_calls(FALSE, fn_in.city, fn_in.geo)]
    /\ UNCHANGED <<env, pc, request, locals, response, calls, fn_in>>

\* one call get_weather_by_coordinates(lat, lon): the result and the requests made
CallWeatherByCoordinates ==
    /\ fn_in.fn = "get_weather_by_coordinates"
    /\ ~IsSet(fn_out)
    /\ fn_out' = [result |-> get_weather_by_coordinates(fn_in.lat, fn_in.lon, fn_in.rev, fn_in.fc),
                  calls |-> weather_calls(TRUE, <<>>, NotCalled)]
    /\ UNCHANGED <<env, pc, request, locals, response, calls, fn_in>>

NextWeather == CallRealtimeWeather \/ CallWeatherByCoordinates

SpecWeather == InitWeather /\ [][NextWeather]_vars

\* the geocoding answer gives coordinates: 200 with a first result that has
\* a name, a latitude and a longitude
GeocodingGivesCoordinates(resp) ==
    /\ resp.kind = "http" /\ resp.status = 200 /\ resp.json_ok
    /\ Len(Get(resp.body, "results", <<>>)) > 0
    /\ {"name", "latitude", "longitude"} \subseteq DOMAIN resp.body.results[1]

\* the reverse geocoding request failed: no answer, or a status other than 200
ReverseGeocodingFailed(resp) == resp.kind # "http" \/ resp.status # 200

\* the forecast answer holds a reading
ForecastGivesReading(resp) ==
    /\ resp.kind = "http" /\ resp.status = 200 /\ resp.json_ok
    /\ ~IsNone(Get(Get(resp.body, "current", <<>>), "temperature_2m", Some(0)))

\* C25: when geocoding gives no coordinates, get_realtime_weather returns an
\* error result and makes no forecast request; when reverse geocoding fails,
\* get_weather_by_coordinates still makes the forecast request and, when
\* that gives a reading, returns it with the city name "Your Location".
C25_GeocodingTerminalReverseNot ==
    IsSet(fn_out) =>
        /\ fn_in.fn = "get_realtime_weather" /\ ~GeocodingGivesCoordinates(fn_in.geo) =>
              /\ ~IsRaised(fn_out.result)
              /\ Get(fn_out.result, "error", FALSE)
              /\ fn_out.calls = << [api |-> "geocode"] >>
        /\ fn_in.fn = "get_weather_by_coordinates" /\ ReverseGeocodingFailed(fn_in.rev) =>
              /\ fn_out.calls = << [api |-> "reverse_geocode"], [api |-> "forecast"] >>
              /\ ForecastGivesReading(fn_in.fc) =>
                    /\ ~fn_out.result.error
                    /\ fn_out.result.city_name = <<"Your Location">>

\* C26: the plan of generate_fallback_plan has the "Stay Informed" section
\* exactly when some article of the news list, at any position, has a
\* non-empty title, and the section then cites the first article's title.
C26_StayInformedWhenAnyTitle ==
    IsSet(fn_out) /\ fn_in.fn = "generate_fallback_plan" =>
        /\ Contains(fn_out.plan, "\n### Stay Informed")
              <=> \E i \in 1..Len(fn_in.news_data) : HasTitle(fn_in.news_data[i])
        /\ Contains(fn_out.plan, "\n### Stay Informed")
              => ContainsStr(fn_out.plan,
                             <<"- Check local news: ">> \o fn_in.news_data[1].title)

\* C27: every AggregateResponse of generate_plan carries at least one
\* article and has partial_success true, whatever the weather, news,
\* traffic and AI lookups gave.
C27_PartialSuccessAlwaysTrue ==
    Answered =>
        /\ Len(Val(response).body.news) > 0
        /\ Val(response).body.partial_success = TRUE

\* weather, news, traffic and AI all reported an error: the response holds
\* the three fallback articles and partial_success is true
C27_Witness ==
    /\ Answered
    /\ ~WeatherOk
    /\ Get(news_result, "error", FALSE)
    /\ Get(traffic_result, "error", FALSE)
    /\ Get(ai_result, "error", FALSE)
    /\ Val(response).body.news = get_fallback_news(display_city)
    /\ Val(response).body.partial_success = TRUE

\* C28: whenever get_realtime_traffic falls back to the news-derived alerts,
\* after a provider error or after an empty or placeholder provider result,
\* it calls get_traffic_alerts with the city the caller passed in.
C28_FallbackQueriesCallerCity ==
    IsSet(fn_out) /\ fn_in.fn = "get_realtime_traffic" =>
        \A k \in 1..Len(fn_out.first_calls) :
            fn_out.first_calls[k].api = "traffic_rss"
                => fn_out.first_calls[k].city = fn_in.city

\* C29: for a request that carries both coordinates, a 0 included, the
\* traffic lookup geocodes no city name and queries the traffic provider at
\* exactly the request's coordinates.
C29_CoordinatesUsedAsGiven ==
    IsSet(request) /\ IsSet(traffic_result) /\ use_coordinates =>
        \A k \in 1..Len(calls) :
            /\ calls[k].api # "tomtom_geocode"
            /\ calls[k].api \in {"tomtom_flow", "tomtom_incidents"} =>
                  /\ calls[k].lat = Val(request.latitude)
                  /\ calls[k].lon = Val(request.longitude)

\* C30: in every AggregateResponse traffic_data is present exactly when the
\* traffic lookup reported no error, and a response with a traffic
\* ServiceError has no traffic_data, no traffic alert and
\* has_high_priority_alerts false.
C30_TrafficDataIffNoError ==
    Answered =>
        /\ ~IsNone(Val(response).body.traffic_data) <=> ~Get(traffic_result, "error", FALSE)
        /\ (\E k \in 1..Len(Val(response).body.errors) :
                Val(response).body.errors[k].service = "traffic") =>
              /\ IsNone(Val(response).body.traffic_data)
              /\ Val(response).body.traffic_alerts = <<>>
              /\ Val(response).body.has_high_priority_alerts = FALSE

\* a response with a traffic ServiceError: the traffic lookup reported an
\* error and generate_plan's own alert feed failed
C30_Witness ==
    /\ Answered
    /\ Get(traffic_result, "error", FALSE)
    /\ \E k \in 1..Len(Val(response).body.errors) :
          Val(response).body.errors[k].service = "traffic"
    /\ IsNone(Val(response).body.traffic_data)
    /\ Val(response).body.traffic_alerts = <<>>
    /\ Val(response).body.has_high_priority_alerts = FALSE

====
